---- MODULE Spec2Model ----
(***************************************************************************)
(* A model of ducible: the tool that rewrites a PE image and its PDB so    *)
(* that two links of the same sources give the same bytes.                 *)
(*                                                                         *)
(* Storage is modelled in cells.  A file, a mapped region and a stream are *)
(* sequences of cells; a cell holds one scalar field (or one character, or *)
(* one byte of a byte array).  Every struct is laid out as in the headers, *)
(* field after field, keeping the fields the tool reads or writes; a       *)
(* sizeof is the number of cells of the layout.  Pointers are addresses:   *)
(* the image is mapped at buf, NULL is address 0.                          *)
(***************************************************************************)
EXTENDS Integers, Sequences, FiniteSets, TLC

VARIABLES
    image,      \* the mapped image file (written through the mapping)
    pdbFile,    \* the contents of the file at pdbPath
    tmpFile,    \* the contents of "<pdbPath>.tmp", or NoFile
    ilkFile,    \* the contents of the .ilk file, or NoFile
    havePdb,    \* pdbPath != NULL
    dryrun,     \* the --dryrun option
    wild,       \* what a read outside the mapped image yields
    pc,         \* the position of patchImageImpl
    pe,         \* the PEFile object
    patches,    \* Patches::patches
    pdbInfo,    \* the CV_INFO_PDB70 pointer held by patchImageImpl, or NULL
    msf,        \* the streams of the MsfFile held by patchPDB
    out,        \* the lines printed to standard output
    result,     \* how the run ended: "" while running
    steps,      \* the steps of the run taken so far, in order
    run,        \* 1 for the first run, 2 for the run on its own output
    start       \* the files as they were when the current run started

vars == <<image, pdbFile, tmpFile, ilkFile, havePdb, dryrun, wild, pc, pe,
          patches, pdbInfo, msf, out, result, steps, run, start>>

-----------------------------------------------------------------------------
(* Bounds of the model *)

\* Cells of a PDB signature (CV_INFO_PDB70.Signature, PdbStream70.sig70).
SigLen == 2

-----------------------------------------------------------------------------
(* Generic helpers *)

\* The contents of a path at which there is no file (no file holds it: the
\* cells of a file are not below -1).
NoFile == <<-2>>

Min(a, b) == IF a < b THEN a ELSE b

Max(a, b) == IF a < b THEN b ELSE a

\* s with the cells at offsets [off, off + Len(d)) replaced by d (memcpy).
Poke(s, off, d) ==
    [i \in 1..Len(s) |->
        IF i - 1 >= off /\ i - 1 < off + Len(d) THEN d[i - off] ELSE s[i]]

\* The cells of s at offsets [off, off + n).
Peek(s, off, n) == [i \in 1..n |-> s[off + i]]

Repeat(v, n) == [i \in 1..n |-> v]

\* F applied to the value of x, which is computed once.
Let(x, F(_)) == F(x)

RECURSIVE Flatten(_)
Flatten(ss) == IF ss = <<>> THEN <<>> ELSE Head(ss) \o Flatten(Tail(ss))

-----------------------------------------------------------------------------
(* PE format (pe/format.h) *)

IMAGE_DOS_SIGNATURE == 23117            \* 0x5A4D

IMAGE_NT_SIGNATURE == 17744             \* 0x00004550

IMAGE_NT_OPTIONAL_HDR32_MAGIC == 267    \* 0x10b

IMAGE_NT_OPTIONAL_HDR64_MAGIC == 523    \* 0x20b

IMAGE_DEBUG_TYPE_CODEVIEW == 2

CV_INFO_SIGNATURE_PDB70 == 1396986706   \* 0x53445352, "RSDS"

\* e_res stands for the words between e_magic and e_lfanew, which the tool
\* does not read.
IMAGE_DOS_HEADER == <<"e_magic", "e_res", "e_lfanew">>

IMAGE_FILE_HEADER ==
    <<"NumberOfSections", "TimeDateStamp", "SizeOfOptionalHeader">>

\* DataDirectory[EXPORT], [RESOURCE] and [DEBUG], each (VirtualAddress, Size).
IMAGE_OPTIONAL_HEADER32 ==
    <<"Magic", "CheckSum",
      "Export.VirtualAddress", "Export.Size",
      "Resource.VirtualAddress", "Resource.Size",
      "Debug.VirtualAddress", "Debug.Size">>

\* The 64-bit header has wider fields between CheckSum and DataDirectory.
IMAGE_OPTIONAL_HEADER64 ==
    <<"Magic", "CheckSum", "SizeOfStackReserve",
      "Export.VirtualAddress", "Export.Size",
      "Resource.VirtualAddress", "Resource.Size",
      "Debug.VirtualAddress", "Debug.Size">>

IMAGE_SECTION_HEADER == <<"VirtualSize", "VirtualAddress", "PointerToRawData">>

IMAGE_EXPORT_DIRECTORY == <<"Characteristics", "TimeDateStamp">>

IMAGE_RESOURCE_DIRECTORY == <<"Characteristics", "TimeDateStamp">>

IMAGE_DEBUG_DIRECTORY ==
    <<"Characteristics", "TimeDateStamp", "Type", "PointerToRawData">>

CV_INFO_PDB70 ==
    <<"CvSignature">> \o Repeat("Signature", SigLen) \o <<"Age", "PdbFileName">>

sizeof(T) == Len(T)

\* The offset of field f in a struct laid out as T.
offsetof(T, f) == (CHOOSE i \in 1..Len(T) : T[i] = f /\ \A j \in 1..(i-1) : T[j] # f) - 1

\* The cells of field f in a struct laid out as T.
fieldlen(T, f) == Cardinality({i \in 1..Len(T) : T[i] = f})

-----------------------------------------------------------------------------
(* PEFile (pe_file.h, pe_file.cpp) *)

\* The address the image is mapped at; NULL is address 0.
buf == 2 ^ 10

NULL == 0

\* Replacement for timestamps.
timestamp == 1262304000

\* Replacement for the PDB age.
pdbAge == 1

\* *(T* )p for a one-cell field: a read outside the mapping yields wild.
Deref(img, p) ==
    IF p >= buf /\ p < buf + Len(img) THEN img[p - buf + 1] ELSE wild

Field(img, p, T, f) == Deref(img, p + offsetof(T, f))

isValidRef(img, p, len) == (p >= buf) /\ (p + len <= buf + Len(img))

InvalidImage(why) == [status |-> "InvalidImage", why |-> why]

\* PEFile::_init: the pointers to the headers, or InvalidImage.
PEFile_init(img) ==
    LET end == buf + Len(img)
        p1  == buf + Field(img, buf, IMAGE_DOS_HEADER, "e_lfanew")
        p2  == p1 + 1
        p3  == p2 + sizeof(IMAGE_FILE_HEADER)
    IN  IF buf + sizeof(IMAGE_DOS_HEADER) >= end
          THEN InvalidImage("missing DOS header")
        ELSE IF Field(img, buf, IMAGE_DOS_HEADER, "e_magic") # IMAGE_DOS_SIGNATURE
          THEN InvalidImage("invalid DOS signature")
        ELSE IF p1 + 1 >= end
          THEN InvalidImage("missing PE signature")
        ELSE IF Deref(img, p1) # IMAGE_NT_SIGNATURE
          THEN InvalidImage("invalid PE signature")
        ELSE IF p2 + sizeof(IMAGE_FILE_HEADER) >= end
          THEN InvalidImage("missing IMAGE_FILE_HEADER")
        ELSE [status         |-> "ok",
              dosHeader      |-> buf,
              fileHeader     |-> p2,
              optional       |-> p3,
              sectionHeaders |->
                  p3 + Field(img, p2, IMAGE_FILE_HEADER, "SizeOfOptionalHeader")]

\* PEFile::PEFile: pdbSignature is zeroed, then _init().
PEFile(img) == [pdbSignature |-> Repeat(0, SigLen)] @@ PEFile_init(img)

\* PEFile::magic
magic(img, f) == Deref(img, f.optional + offsetof(IMAGE_OPTIONAL_HEADER32, "Magic"))

\* PEFile::optionalHeader<T>: FALSE when the bounds check throws.
optionalHeaderOk(img, f, T) == ~(f.optional + sizeof(T) >= buf + Len(img))

\* The section header translate() stops at: the first that holds rva, or the
\* one past the last when none does.
RECURSIVE FindSection(_, _, _, _, _)
FindSection(img, s, i, n, rva) ==
    IF i >= n THEN s
    ELSE IF rva >= Field(img, s, IMAGE_SECTION_HEADER, "VirtualAddress")
            /\ rva < Field(img, s, IMAGE_SECTION_HEADER, "VirtualAddress")
                     + Field(img, s, IMAGE_SECTION_HEADER, "VirtualSize")
         THEN s
    ELSE FindSection(img, s + sizeof(IMAGE_SECTION_HEADER), i + 1, n, rva)

\* PEFile::translate
translate(img, f, rva) ==
    LET s == FindSection(img, f.sectionHeaders, 0,
                 Field(img, f.fileHeader, IMAGE_FILE_HEADER, "NumberOfSections"), rva)
    IN  buf + rva - Field(img, s, IMAGE_SECTION_HEADER, "VirtualAddress")
            + Field(img, s, IMAGE_SECTION_HEADER, "PointerToRawData")

\* PEFile::getDataDir<T>: [ok, dir], dir = NULL when the directory is absent.
getDataDir(img, f, Opt, T, entry) ==
    LET va   == Field(img, f.optional, Opt, entry \o ".VirtualAddress")
        size == Field(img, f.optional, Opt, entry \o ".Size")
        dir  == translate(img, f, va)
    IN  IF va = 0 THEN [ok |-> TRUE, dir |-> NULL]
        ELSE IF size < sizeof(T) THEN [ok |-> FALSE, dir |-> NULL]
        ELSE IF ~isValidRef(img, dir, sizeof(T)) THEN [ok |-> FALSE, dir |-> NULL]
        ELSE [ok |-> TRUE, dir |-> dir]

\* PEFile::getDebugDataDirs: count is left as the caller had it (unset) when
\* the directory is absent.
getDebugDataDirs(img, f, Opt, unset) ==
    LET va   == Field(img, f.optional, Opt, "Debug.VirtualAddress")
        size == Field(img, f.optional, Opt, "Debug.Size")
        p    == translate(img, f, va)
    IN  IF va = 0 THEN [ok |-> TRUE, dir |-> NULL, count |-> unset]
        ELSE IF ~isValidRef(img, p, size) THEN [ok |-> FALSE, dir |-> NULL, count |-> 0]
        ELSE [ok |-> TRUE, dir |-> p, count |-> size \div sizeof(IMAGE_DEBUG_DIRECTORY)]

\* The loop over the debug entries shared by PEFile::pdbInfo and
\* patchDebugDataDirectories: the CodeView pointer found, or an error.
RECURSIVE FindCodeView(_, _, _, _, _)
FindCodeView(img, dir, i, count, cvInfo) ==
    IF i >= count THEN [status |-> "ok", cvInfo |-> cvInfo]
    ELSE IF Field(img, dir, IMAGE_DEBUG_DIRECTORY, "Type") = IMAGE_DEBUG_TYPE_CODEVIEW
      THEN IF cvInfo # NULL
             THEN InvalidImage("found multiple CodeView debug entries")
           ELSE LET cv == buf + Field(img, dir, IMAGE_DEBUG_DIRECTORY, "PointerToRawData")
                IN  IF ~isValidRef(img, cv, sizeof(CV_INFO_PDB70))
                      THEN InvalidImage("invalid CodeView debug entry location")
                    ELSE FindCodeView(img, dir + sizeof(IMAGE_DEBUG_DIRECTORY),
                                      i + 1, count, cv)
    ELSE FindCodeView(img, dir + sizeof(IMAGE_DEBUG_DIRECTORY), i + 1, count, cvInfo)

\* PEFile::pdbInfo
PEFile_pdbInfo(img, f, Opt) ==
    LET d == getDebugDataDirs(img, f, Opt, 0)
    IN  IF ~d.ok THEN InvalidImage("IMAGE_DATA_DIRECTORY.VirtualAddress is invalid")
        ELSE IF d.dir = NULL THEN [status |-> "ok", cvInfo |-> NULL]
        ELSE FindCodeView(img, d.dir, 0, d.count, NULL)

-----------------------------------------------------------------------------
(* Patch and Patches (patch.h, ducible/patch.cpp, ducible/patches.h) *)

\* The bits of a size_t (64 in the program, scaled to the integers of the
\* model).
SizeBits == 30

\* The value x has as a size_t.
size_t(x) == x % (2 ^ SizeBits)

\* Patches::add<T>: the patch of the sizeof(T) cells at address addr; the
\* offset is a size_t, so that an address below buf gives a huge offset.
\* data names the member of the PEFile the patch points at.
Patch(addr, length, data, name) ==
    [offset |-> size_t(addr - buf), length |-> length, data |-> data,
     name |-> name]

\* What patch.data points at, as the PEFile has it now.
PatchData(p, f) ==
    CASE p.data = "timestamp"    -> <<timestamp>>
      [] p.data = "pdbAge"       -> <<pdbAge>>
      [] p.data = "pdbSignature" -> f.pdbSignature

\* operator<(Patch, Patch)
PatchLess(a, b) ==
    \/ a.offset < b.offset
    \/ a.offset = b.offset /\ a.length < b.length

RECURSIVE InsertPatch(_, _)
InsertPatch(p, s) ==
    IF s = <<>> THEN <<p>>
    ELSE IF PatchLess(p, Head(s)) THEN <<p>> \o s
    ELSE <<Head(s)>> \o InsertPatch(p, Tail(s))

\* Patches::sort
RECURSIVE Patches_sort(_)
Patches_sort(s) ==
    IF s = <<>> THEN <<>>
    ELSE InsertPatch(s[Len(s)], Patches_sort(SubSeq(s, 1, Len(s) - 1)))

\* operator<<(ostream, Patch)
PatchLine(p) == <<"Patching", p.name, p.offset, p.length>>

\* A faulty Patch::apply, which reports whether the bytes differ or not:
\* C14 must tell it from the real one.
Patch_apply_always(img, f, p, dry, o) ==
    [img |-> IF dry THEN img ELSE Poke(img, p.offset, PatchData(p, f)),
     out |-> Append(o, PatchLine(p))]

\* Patch::apply: [img, out] after the patch.
Patch_apply(img, f, p, dry, o) ==
    IF Peek(img, p.offset, p.length) = PatchData(p, f)
      THEN [img |-> img, out |-> o]
    ELSE [img |-> IF dry THEN img ELSE Poke(img, p.offset, PatchData(p, f)),
          out |-> Append(o, PatchLine(p))]

\* Patches::apply
RECURSIVE Patches_apply(_, _, _, _, _)
Patches_apply(img, f, ps, dry, o) ==
    IF ps = <<>> THEN [img |-> img, out |-> o]
    ELSE Let(Patch_apply(img, f, Head(ps), dry, o), LAMBDA r :
             Patches_apply(r.img, f, Tail(ps), dry, r.out))

-----------------------------------------------------------------------------
(* patch_image.cpp: the image *)

Fault == [status |-> "fault"]

\* The loop of patchDebugDataDirectories.  A null dir with a nonzero count
\* is dereferenced: the process faults.
RECURSIVE DebugDirLoop(_, _, _, _, _, _)
DebugDirLoop(img, dir, i, count, cvInfo, ps) ==
    IF i >= count THEN [status |-> "ok", cvInfo |-> cvInfo, patches |-> ps]
    ELSE IF dir = NULL THEN Fault
    ELSE
      LET ps1 == IF Field(img, dir, IMAGE_DEBUG_DIRECTORY, "TimeDateStamp") # 0
                   THEN Append(ps,
                          Patch(dir + offsetof(IMAGE_DEBUG_DIRECTORY, "TimeDateStamp"),
                                1, "timestamp", "IMAGE_DEBUG_DIRECTORY.TimeDateStamp"))
                 ELSE ps
          next == dir + sizeof(IMAGE_DEBUG_DIRECTORY)
      IN  IF Field(img, dir, IMAGE_DEBUG_DIRECTORY, "Type") = IMAGE_DEBUG_TYPE_CODEVIEW
            THEN IF cvInfo # NULL
                   THEN InvalidImage("found multiple CodeView debug entries")
                 ELSE LET cv == buf + Field(img, dir, IMAGE_DEBUG_DIRECTORY,
                                            "PointerToRawData")
                      IN  IF ~isValidRef(img, cv, sizeof(CV_INFO_PDB70))
                            THEN InvalidImage("invalid CodeView debug entry location")
                          ELSE DebugDirLoop(img, next, i + 1, count, cv, ps1)
          ELSE DebugDirLoop(img, next, i + 1, count, cvInfo, ps1)

\* patchDebugDataDirectories; unset is what the uninitialized debugDirCount
\* happens to hold.
patchDebugDataDirectories(img, f, Opt, ps, unset) ==
    Let(getDebugDataDirs(img, f, Opt, unset), LAMBDA d :
    Let(IF d.ok THEN DebugDirLoop(img, d.dir, 0, d.count, NULL, ps) ELSE Fault,
        LAMBDA r :
        IF ~d.ok THEN InvalidImage("IMAGE_DATA_DIRECTORY.VirtualAddress is invalid")
        ELSE IF r.status # "ok" THEN r
        ELSE IF r.cvInfo = NULL THEN [status |-> "ok", patches |-> r.patches]
        ELSE IF Field(img, r.cvInfo, CV_INFO_PDB70, "CvSignature")
                    # CV_INFO_SIGNATURE_PDB70
          THEN InvalidImage("unsupported PDB format, only version 7.0 is supported")
        ELSE [status  |-> "ok",
              patches |-> r.patches \o
                <<Patch(r.cvInfo + offsetof(CV_INFO_PDB70, "Signature"),
                        fieldlen(CV_INFO_PDB70, "Signature"),
                        "pdbSignature", "PDB Signature"),
                  Patch(r.cvInfo + offsetof(CV_INFO_PDB70, "Age"),
                        1, "pdbAge", "PDB Age")>>]))

\* A faulty patchOptionalHeader, which leaves out the patch of the
\* checksum: C3 must tell it from the real one.
patchOptionalHeader_noCheckSum(img, f, Opt, ps, unset) ==
    LET e   == getDataDir(img, f, Opt, IMAGE_EXPORT_DIRECTORY, "Export")
        ps2 == IF e.dir # NULL
                 THEN Append(ps,
                        Patch(e.dir + offsetof(IMAGE_EXPORT_DIRECTORY, "TimeDateStamp"),
                              1, "timestamp", "IMAGE_EXPORT_DIRECTORY.TimeDateStamp"))
               ELSE ps
        r   == getDataDir(img, f, Opt, IMAGE_RESOURCE_DIRECTORY, "Resource")
        ps3 == IF r.dir # NULL
                 THEN Append(ps2,
                        Patch(r.dir + offsetof(IMAGE_RESOURCE_DIRECTORY, "TimeDateStamp"),
                              1, "timestamp", "IMAGE_RESOURCE_DIRECTORY.TimeDateStamp"))
               ELSE ps2
    IN  IF ~e.ok THEN InvalidImage("IMAGE_DATA_DIRECTORY (export) is invalid")
        ELSE IF ~r.ok THEN InvalidImage("IMAGE_DATA_DIRECTORY (resource) is invalid")
        ELSE patchDebugDataDirectories(img, f, Opt, ps3, unset)

\* patchOptionalHeader<T>
patchOptionalHeader(img, f, Opt, ps, unset) ==
    LET ps1 == Append(ps, Patch(f.optional + offsetof(Opt, "CheckSum"), 1,
                                "timestamp", "OptionalHeader.CheckSum"))
        e   == getDataDir(img, f, Opt, IMAGE_EXPORT_DIRECTORY, "Export")
        ps2 == IF e.dir # NULL
                 THEN Append(ps1,
                        Patch(e.dir + offsetof(IMAGE_EXPORT_DIRECTORY, "TimeDateStamp"),
                              1, "timestamp", "IMAGE_EXPORT_DIRECTORY.TimeDateStamp"))
               ELSE ps1
        r   == getDataDir(img, f, Opt, IMAGE_RESOURCE_DIRECTORY, "Resource")
        ps3 == IF r.dir # NULL
                 THEN Append(ps2,
                        Patch(r.dir + offsetof(IMAGE_RESOURCE_DIRECTORY, "TimeDateStamp"),
                              1, "timestamp", "IMAGE_RESOURCE_DIRECTORY.TimeDateStamp"))
               ELSE ps2
    IN  IF ~e.ok THEN InvalidImage("IMAGE_DATA_DIRECTORY (export) is invalid")
        ELSE IF ~r.ok THEN InvalidImage("IMAGE_DATA_DIRECTORY (resource) is invalid")
        ELSE patchDebugDataDirectories(img, f, Opt, ps3, unset)

\* One case of the switch of patchImageImpl: optionalHeader<T>(), pdbInfo(),
\* patchOptionalHeader().
PatchAs(img, f, Opt, ps, unset) ==
    IF ~optionalHeaderOk(img, f, Opt) THEN InvalidImage("missing IMAGE_OPTIONAL_HEADER")
    ELSE Let(PEFile_pdbInfo(img, f, Opt), LAMBDA i :
         IF i.status # "ok" THEN i
         ELSE Let(patchOptionalHeader(img, f, Opt, ps, unset), LAMBDA r :
              IF r.status # "ok" THEN r
              ELSE [status |-> "ok", pdbInfo |-> i.cvInfo, patches |-> r.patches]))

\* patchImageImpl from the PEFile constructor to the end of the switch.
CollectPatches(img, unset) ==
    Let(PEFile(img), LAMBDA f :
        LET ps == <<Patch(f.fileHeader + offsetof(IMAGE_FILE_HEADER, "TimeDateStamp"),
                          1, "timestamp", "IMAGE_FILE_HEADER.TimeDateStamp")>>
        IN  IF f.status # "ok" THEN f
            ELSE IF magic(img, f) = IMAGE_NT_OPTIONAL_HDR32_MAGIC
              THEN [pe |-> f] @@ PatchAs(img, f, IMAGE_OPTIONAL_HEADER32, ps, unset)
            ELSE IF magic(img, f) = IMAGE_NT_OPTIONAL_HDR64_MAGIC
              THEN [pe |-> f] @@ PatchAs(img, f, IMAGE_OPTIONAL_HEADER64, ps, unset)
            ELSE InvalidImage("unsupported IMAGE_NT_HEADERS.OptionalHeader"))

\* The modulus of the digest state.
DigestMod == 65521

\* md5_update over the cells of chunk.
RECURSIVE md5_update(_, _)
md5_update(h, chunk) ==
    IF chunk = <<>> THEN h
    ELSE md5_update((h * 31 + (Head(chunk) % 251) + 1) % DigestMod, Tail(chunk))

\* md5_finish: the SigLen cells of the digest.
md5_finish(h) == [i \in 1..SigLen |-> (h \div (256 ^ (i - 1))) % 256]

\* The loop of calculateChecksum.  The length passed to md5_update is a
\* size_t: it wraps around when a patch starts before the end of the one
\* before it, and it is huge when the offset of the patch is.  The result is
\* -1 (the process faults) when md5_update is told to read past the end of
\* the mapped image.
RECURSIVE ChecksumLoop(_, _, _, _)
ChecksumLoop(img, ps, pos, h) ==
    IF ps = <<>>
      THEN IF pos + size_t(Len(img) - pos) > Len(img) THEN -1
           ELSE md5_update(h, Peek(img, pos, size_t(Len(img) - pos)))
    ELSE IF pos + size_t(Head(ps).offset - pos) > Len(img) THEN -1
    ELSE ChecksumLoop(img, Tail(ps), size_t(Head(ps).offset + Head(ps).length),
                      md5_update(h, Peek(img, pos, size_t(Head(ps).offset - pos))))

\* A faulty calculateChecksum, which hashes the patched ranges too: C2 must
\* tell it from the real one.
calculateChecksum_whole(img, ps) ==
    [status |-> "ok", output |-> md5_finish(md5_update(0, img))]

\* calculateChecksum
calculateChecksum(img, ps) ==
    Let(ChecksumLoop(img, ps, 0, 0), LAMBDA h :
        IF h = -1 THEN Fault
        ELSE [status |-> "ok", output |-> md5_finish(h)])

-----------------------------------------------------------------------------
(* MSF (msf/format.h, msf_stream.h, msf_file_stream.cpp,                   *)
(* msf_memory_stream.cpp, msf/readonly_stream.cpp, msf/msf.cpp)            *)

\* log2 of the page size the writer uses (4096 bytes in the program, scaled
\* to cells here).
PageBits == 6

\* A good page size to use when writing out the MSF.
kPageSize == 2 ^ PageBits

\* Magic version string in the MSF header, one cell.
kMsfHeaderMagic == 700

MSF_HEADER ==
    <<"magic", "pageSize", "freePageMap", "pageCount",
      "streamTableInfo.size", "streamTableInfo.index">>

InvalidMsf(why) == [status |-> "InvalidMsf", why |-> why]

\* The width of uint32_t, as far as the integers of the model go, and the
\* value of an uint32_t expression.
Uint32Bits == 30

uint32_t(x) == x % (2 ^ Uint32Bits)

\* ::pageCount
pageCount(pageSize, length) == (length + pageSize - 1) \div pageSize

\* fseek(f, off) then fread(buf, 1, n, f): the cells read, fewer than n at
\* the end of the file.
fread(f, off, n) ==
    IF off < 0 \/ off >= Len(f) THEN <<>>
    ELSE SubSeq(f, off + 1, Min(off + n, Len(f)))

\* The three kinds of stream an MsfFile holds, and the empty slot.
NullStream == [kind |-> "null"]

MsfFileStream(pageSize, length, pages) ==
    [kind |-> "file", pageSize |-> pageSize, length |-> length, pages |-> pages]

MsfMemoryStream(data) == [kind |-> "mem", data |-> data]

MsfReadOnlyStream(data) == [kind |-> "ro", data |-> data]

\* MsfStream::length
StreamLength(s) ==
    CASE s.kind = "null" -> 0
      [] s.kind = "file" -> s.length
      [] OTHER           -> Len(s.data)

\* MsfFileStream::read(length, buf) at position pos: the cells read.
RECURSIVE MsfFileStream_read(_, _, _, _)
MsfFileStream_read(f, s, pos, length) ==
    IF length <= 0 THEN <<>>
    ELSE LET i         == pos \div s.pageSize
             offset    == pos % s.pageSize
             chunkSize == Min(length, s.pageSize - offset)
             chunk     == fread(f, s.pageSize * s.pages[i + 1] + offset, chunkSize)
         IN  IF i >= Len(s.pages) THEN <<>>
             ELSE IF Len(chunk) # chunkSize THEN chunk
             ELSE chunk \o MsfFileStream_read(f, s, pos + chunkSize,
                                              length - chunkSize)

\* MsfMemoryStream::read(length, buf) at position pos: the cells copied.
MsfMemoryStream_read(data, pos, length) ==
    IF pos >= Len(data) THEN <<>>
    ELSE SubSeq(data, 1, Min(Len(data) - pos, length))

\* MsfReadOnlyStream::read(length, buf) at position pos.
MsfReadOnlyStream_read(data, pos, length) ==
    IF pos >= Len(data) THEN <<>>
    ELSE SubSeq(data, pos + 1, pos + Min(Len(data) - pos, length))

\* stream->read(length, buf) at position pos, f the file behind file streams.
StreamRead(f, s, pos, length) ==
    CASE s.kind = "file" -> MsfFileStream_read(f, s, pos, length)
      [] s.kind = "mem"  -> MsfMemoryStream_read(s.data, pos, length)
      [] s.kind = "ro"   -> MsfReadOnlyStream_read(s.data, pos, length)

\* MsfMemoryStream(MsfStream* ): the length() cells read from position 0;
\* the vector is zero-filled where the read falls short.
MsfMemoryStream_copy(f, s) ==
    Let(StreamRead(f, s, 0, StreamLength(s)), LAMBDA got :
        MsfMemoryStream(got \o Repeat(0, StreamLength(s) - Len(got))))

\* A writer that knows the second page of each pair of free page map
\* pages only.
isFpmPage_secondOnly(page) == (page % kPageSize) = 2

\* isFpmPage
isFpmPage(page) == (page % kPageSize) \in {1, 2}

\* writePage: w is the file being written, [f, pageCount, pagesWritten].
writePage(w, data, record) ==
    [f            |-> w.f \o data,
     pageCount    |-> w.pageCount + 1,
     pagesWritten |-> IF record THEN Append(w.pagesWritten, w.pageCount)
                      ELSE w.pagesWritten]

kBlankPage == Repeat(0, kPageSize)

\* The loop of writeStream, the stream at position pos.
RECURSIVE WriteStreamLoop(_, _, _, _)
WriteStreamLoop(src, s, pos, w) ==
    Let(StreamRead(src, s, pos, kPageSize), LAMBDA b :
        IF Len(b) = 0 THEN w
        ELSE IF isFpmPage(w.pageCount)
          THEN WriteStreamLoop(src, s, pos + Len(b),
                   writePage(writePage(writePage(w, kBlankPage, FALSE),
                                       kBlankPage, FALSE),
                             b \o Repeat(0, kPageSize - Len(b)), TRUE))
        ELSE WriteStreamLoop(src, s, pos + Len(b),
                 writePage(w, b \o Repeat(0, kPageSize - Len(b)), TRUE)))

\* writeStream
writeStream(src, s, w) ==
    IF s.kind = "null" \/ StreamLength(s) = 0 THEN w
    ELSE WriteStreamLoop(src, s, 0, w)

\* The loop of MsfFile::MsfFile over the streams of the stream table st.
RECURSIVE ReadStreams(_, _, _, _, _, _)
ReadStreams(st, pageSize, streamCount, i, pagesIndex, acc) ==
    IF i >= streamCount THEN [status |-> "ok", streams |-> acc]
    ELSE IF pagesIndex >= Len(st)
      THEN InvalidMsf("invalid stream count in stream table")
    ELSE
      LET at(k) == IF k < Len(st) THEN st[k + 1] ELSE wild
          raw   == at(1 + i)
          size  == IF raw = -1 THEN 0 ELSE raw
          n     == pageCount(pageSize, size)
          pages == [k \in 1..n |-> at(1 + streamCount + pagesIndex + k - 1)]
      IN  ReadStreams(st, pageSize, streamCount, i + 1, pagesIndex + n,
                      Append(acc, MsfFileStream(pageSize, size, pages)))

\* The indices of the words of the stream table st that the loop of
\* MsfFile::MsfFile reads from the stream i on: streamSizes[i], and the
\* pages that MsfFileStream::MsfFileStream copies from streamPages +
\* pagesIndex.
RECURSIVE ReadStreams_reads(_, _, _, _, _)
ReadStreams_reads(st, pageSize, streamCount, i, pagesIndex) ==
    IF i >= streamCount \/ pagesIndex >= Len(st) THEN {}
    ELSE
      LET raw   == IF 1 + i < Len(st) THEN st[2 + i] ELSE wild
          size  == IF raw = -1 THEN 0 ELSE raw
          n     == pageCount(pageSize, size)
      IN  {1 + i}
            \cup {1 + streamCount + pagesIndex + k : k \in 0..(n - 1)}
            \cup ReadStreams_reads(st, pageSize, streamCount, i + 1,
                                   pagesIndex + n)

\* MsfFile::MsfFile(FileRef)
MsfFile_ctor(f) ==
    LET H(name) == f[offsetof(MSF_HEADER, name) + 1]
        pageSize == H("pageSize")
        stSize   == H("streamTableInfo.size")
        stPagesPagesCount == pageCount(pageSize, stSize)
    IN  IF Len(f) < sizeof(MSF_HEADER) THEN InvalidMsf("Missing MSF header")
        ELSE IF H("magic") # kMsfHeaderMagic THEN InvalidMsf("Invalid MSF header")
        ELSE IF uint32_t(pageSize * H("pageCount")) # Len(f)
          THEN InvalidMsf("Invalid MSF file length")
        ELSE
        Let(fread(f, sizeof(MSF_HEADER), stPagesPagesCount),
            LAMBDA streamTablePagesPages :
        IF Len(streamTablePagesPages) # stPagesPagesCount
          THEN InvalidMsf("Missing root MSF stream table page list")
        ELSE
        Let(MsfFileStream_read(f,
                MsfFileStream(pageSize, stPagesPagesCount,
                    SubSeq(streamTablePagesPages, 1,
                           pageCount(pageSize, stPagesPagesCount))),
                0, stPagesPagesCount),
            LAMBDA streamTablePages :
        IF Len(streamTablePages) # stPagesPagesCount
          THEN InvalidMsf("failed to read stream table page list")
        ELSE
        Let(MsfFileStream_read(f,
                MsfFileStream(pageSize, stSize, streamTablePages), 0, stSize),
            LAMBDA streamTable :
        IF Len(streamTable) # stSize
          THEN InvalidMsf("failed to read stream table")
        ELSE ReadStreams(streamTable, pageSize,
                 IF streamTable = <<>> THEN wild ELSE streamTable[1], 0, 0, <<>>))))

\* MsfFile::getStream
getStream(streams, index) ==
    IF index >= 0 /\ index < Len(streams) THEN streams[index + 1] ELSE NullStream

\* MsfFile::replaceStream
replaceStream(streams, index, s) == [streams EXCEPT ![index + 1] = s]

RECURSIVE SumBits(_, _)
SumBits(bits, b) ==
    IF b > 7 THEN 0 ELSE (IF bits[b] THEN 2 ^ b ELSE 0) + SumBits(bits, b + 1)

\* A free page map whose bits left over in the last byte stay "used".
FreePageMap_noLeftOver(pages, free) ==
    [i \in 1..((pages + 7) \div 8) |->
        SumBits([b \in 0..7 |-> ((i - 1) * 8 + b) \in free], 0)]

\* FreePageMap(pageCount) after setFree() of the pages in free: the bytes of
\* _data; the bits left over in the last byte are marked free.
FreePageMap(pages, free) ==
    [i \in 1..((pages + 7) \div 8) |->
        SumBits([b \in 0..7 |-> LET p == (i - 1) * 8 + b
                                IN  p >= pages \/ p \in free], 0)]

\* fseek(f, off) then fwrite(d): the file grows when written past its end.
fwrite(f, off, d) ==
    SubSeq(f, 1, Min(off, Len(f)))
      \o Repeat(0, off - Len(f))
      \o d
      \o SubSeq(f, off + Len(d) + 1, Len(f))

\* FreePageMap::write: whole pages of the map, one every pageSize pages,
\* then the rest of the map filled up with 0xFF to a page.
RECURSIVE FreePageMap_write(_, _, _)
FreePageMap_write(f, data, page) ==
    IF Len(data) >= kPageSize
      THEN FreePageMap_write(fwrite(f, page * kPageSize, SubSeq(data, 1, kPageSize)),
                             SubSeq(data, kPageSize + 1, Len(data)),
                             page + kPageSize)
    ELSE IF Len(data) > 0
      THEN fwrite(f, page * kPageSize, data \o Repeat(255, kPageSize - Len(data)))
    ELSE f

RECURSIVE WriteStreams(_, _, _, _)
WriteStreams(src, streams, i, w) ==
    IF i > Len(streams) THEN w
    ELSE WriteStreams(src, streams, i + 1, writeStream(src, streams[i], w))

\* MsfFile::write: the file written, or InvalidMsf with the file as it is
\* left.  src is the file behind the file-backed streams.
MsfFile_write(src, streams) ==
    LET sizes == [i \in 1..Len(streams) |-> StreamLength(streams[i])]
        w0 == [f            |-> Repeat(0, 4 * kPageSize),
               pageCount    |-> 4,
               pagesWritten |-> <<Len(streams)>> \o sizes]
        streamZeroStart == Len(w0.pagesWritten)
    IN
    Let(IF Len(streams) > 0 THEN writeStream(src, streams[1], w0) ELSE w0,
        LAMBDA wz :
    Let(WriteStreams(src, streams, 2, wz), LAMBDA w1 :
    Let(writeStream(src, MsfReadOnlyStream(w1.pagesWritten),
                    [w1 EXCEPT !.pagesWritten = <<>>]), LAMBDA w2 :
    Let(writeStream(src, MsfReadOnlyStream(w2.pagesWritten),
                    [w2 EXCEPT !.pagesWritten = <<>>]), LAMBDA w3 :
    Let(fwrite(w3.f, 0, <<kMsfHeaderMagic, kPageSize, 1, w3.pageCount,
                          Len(w1.pagesWritten), 0>>), LAMBDA f1 :
        LET streamZeroEnd == Len(wz.pagesWritten)
            streamTable   == w1.pagesWritten
            free == {3} \cup {streamTable[i] :
                                 i \in (streamZeroStart + 1)..streamZeroEnd}
        IN  IF Len(w3.pagesWritten) > kPageSize - sizeof(MSF_HEADER)
              THEN [status |-> "InvalidMsf", f |-> f1,
                    why |-> "root stream table pages are too large to fit in one page"]
            ELSE [status |-> "ok",
                  f |-> FreePageMap_write(
                            fwrite(f1, sizeof(MSF_HEADER), w3.pagesWritten),
                            FreePageMap(w3.pageCount, free), 1)])))))

-----------------------------------------------------------------------------
(* PDB format (pdb/format.h, symbol_types.h) *)

PdbStreamType == [streamTable |-> 0, header |-> 1, tbi |-> 2, dbi |-> 3, ipi |-> 4]

PdbVersion_vc70 == 20000404

DbiVersion_v70 == 19990903

\* (uint32_t)-1, as a signed cell.
dbiHeaderSignature == -1

\* 0xeffeeffe, as a signed cell.
kHashTableSignature == -268505090

CV_SIGNATURE_C13 == 4

S_OBJNAME == 4353                       \* 0x1101

PdbStream70 == <<"version", "timestamp", "age">> \o Repeat("sig70", SigLen)

DbiHeader ==
    <<"signature", "version", "age", "globalSymbolStream", "publicSymbolStream",
      "symbolRecordsStream", "gpModInfoSize", "sectionContributionSize",
      "sectionMapSize", "fileInfoSize", "typeServerMapSize", "debugHeaderSize",
      "ecInfoSize">>

SectionContribution == <<"section", "padding1", "offset", "padding2">>

ModuleInfo ==
    <<"opened", "sc.section", "sc.padding1", "sc.offset", "sc.padding2",
      "stream", "offsets", "srcFileIndex">>

\* Byte layout: the symbol records stream is modelled byte by byte.
SymbolRecord == <<"length", "length", "type", "type">>

OBJNAMESYM == <<"reclen", "rectyp", "signature">>

PublicSymbolHeader ==
    <<"hashTableSize", "addrMapSize", "thunks", "thunkSize",
      "thunkTableSecIndex", "padding1", "thunkTableOffset", "sectionCount">>

FileInfoHeader == <<"modiref", "modcref">>

LinkInfo ==
    <<"size", "version", "cwdOffset", "commandOffset", "outputFileOffset",
      "libsOffset">>

StringTableHeader == <<"signature", "version", "stringsSize">>

InvalidPdb(why) == [status |-> "InvalidPdb", why |-> why]

\* The field f of the struct T at offset p of the stream data d.
Get(d, p, T, f) == d[p + offsetof(T, f) + 1]

\* d with the field f of the struct T at offset p set to v.
Set(d, p, T, f, v) == [d EXCEPT ![p + offsetof(T, f) + 1] = v]

\* strlen of the string at offset p of d; a string that is not terminated
\* in d runs to its end.
RECURSIVE strlen(_, _)
strlen(d, p) ==
    IF p >= Len(d) \/ d[p + 1] = 0 THEN 0 ELSE 1 + strlen(d, p + 1)

\* The characters of the string at offset p of d.
CStr(d, p) == SubSeq(d, p + 1, p + strlen(d, p))

\* The lengths of the groups of hexadecimal digits of a GUID in text
\* (8-4-4-4-12 in the program, scaled here).
GuidGroups == <<2, 1, 1, 1, 3>>

\* guidRegex as a sequence of character classes.
RECURSIVE GuidBody(_)
GuidBody(groups) ==
    IF Len(groups) = 1 THEN Repeat("hex", groups[1])
    ELSE Repeat("hex", groups[1]) \o <<"-">> \o GuidBody(Tail(groups))

guidRegex == <<"{">> \o GuidBody(GuidGroups) \o <<"}">>

\* Whether the character c is in the class cls of guidRegex.
InClass(c, cls) ==
    CASE cls = "{"   -> c = 123
      [] cls = "}"   -> c = 125
      [] cls = "-"   -> c = 45
      [] cls = "hex" -> (c >= 48 /\ c <= 57) \/ (c >= 97 /\ c <= 102)
                        \/ (c >= 65 /\ c <= 70)

\* nullGuid, with its terminating NUL.
nullGuid ==
    [i \in 1..Len(guidRegex) |->
        CASE guidRegex[i] = "{"   -> 123
          [] guidRegex[i] = "}"   -> 125
          [] guidRegex[i] = "-"   -> 45
          [] guidRegex[i] = "hex" -> 48] \o <<0>>

\* The positions in [0, length) of the string at offset path of d at which
\* guidRegex matches.
GuidMatches(d, path, length) ==
    {m \in 0..(length - Len(guidRegex)) :
        \A k \in 1..Len(guidRegex) : InClass(d[path + m + k], guidRegex[k])}

\* normalizeFileNameGuid
normalizeFileNameGuid(d, path, length) ==
    LET ms == GuidMatches(d, path, length)
    IN  IF ms = {} THEN d
        ELSE Poke(d, path + (CHOOSE m \in ms : \A n \in ms : m <= n), nullGuid)

-----------------------------------------------------------------------------
(* patch_image.cpp: the PDB *)

\* "/LinkInfo"
sLinkInfo == <<47, 76, 105, 110, 107, 73, 110, 102, 111>>

\* "/names"
sNames == <<47, 110, 97, 109, 101, 115>>

\* "* Linker Generated Manifest RES *"
sManifestRes ==
    <<42, 32, 76, 105, 110, 107, 101, 114, 32, 71, 101, 110, 101, 114, 97, 116,
      101, 100, 32, 77, 97, 110, 105, 102, 101, 115, 116, 32, 82, 69, 83, 32, 42>>

\* A faulty matchingSignatures, which compares the ages only: C15 must tell
\* it from the real one.
matchingSignatures_ageOnly(img, info, d) ==
    Field(img, info, CV_INFO_PDB70, "Age") = Get(d, 0, PdbStream70, "age")

\* matchingSignatures: info is the CV_INFO_PDB70 at pdbInfo in the image.
matchingSignatures(img, info, d) ==
    /\ Field(img, info, CV_INFO_PDB70, "Age") = Get(d, 0, PdbStream70, "age")
    /\ Peek(img, info - buf + offsetof(CV_INFO_PDB70, "Signature"), SigLen)
         = Peek(d, offsetof(PdbStream70, "sig70"), SigLen)

\* The loop of readNameMapTable over the pairs at offset pairs of d: the
\* table built so far is a function from names to stream numbers.
RECURSIVE NameMapPairs(_, _, _, _, _, _, _)
NameMapPairs(d, strings, stringsLength, pairs, elemCount, i, table) ==
    IF i >= elemCount THEN [status |-> "ok", table |-> table]
    ELSE IF d[pairs + 2 * i + 1] >= stringsLength
      THEN InvalidPdb("invalid PDB name table offset into strings buffer")
    ELSE LET name == CStr(d, strings + d[pairs + 2 * i + 1])
         IN  NameMapPairs(d, strings, stringsLength, pairs, elemCount, i + 1,
                 [n \in DOMAIN table \cup {name} |->
                     IF n = name THEN d[pairs + 2 * i + 2] ELSE table[n]])

\* readNameMapTable(data, dataEnd): data is the offset in d, dataEnd is Len(d).
readNameMapTable(d, data) ==
    LET end           == Len(d)
        stringsLength == d[data + 1]
        strings       == data + 1
        p2            == strings + stringsLength
        elemCount     == d[p2 + 1]
        p3            == p2 + 2
        presentSize   == d[p3 + 1]
        p4            == p3 + 1 + presentSize
        deletedSize   == d[p4 + 1]
        p5            == p4 + 1 + deletedSize
    IN  IF end - data < 1
          THEN InvalidPdb("missing PDB name table strings length")
        ELSE IF end - strings < stringsLength
          THEN InvalidPdb("missing PDB name table strings data")
        ELSE IF end - p2 < 2
          THEN InvalidPdb("missing PDB stream name map sizes")
        ELSE IF end - p3 < 1
          THEN InvalidPdb("missing PDB name table 'present' bitset size")
        ELSE IF p4 > end
          THEN InvalidPdb("missing PDB name table 'present' bitset data")
        ELSE IF end - p4 < 1
          THEN InvalidPdb("missing PDB name table 'deleted' bitset size")
        ELSE IF p5 > end
          THEN InvalidPdb("missing PDB name table 'deleted' bitset data")
        ELSE IF end - p5 < elemCount * 2
          THEN InvalidPdb("missing PDB name table pairs")
        ELSE NameMapPairs(d, strings, stringsLength, p5, elemCount, 0, <<>>)

\* patchLinkInfoStream: the data of the stream after the patch.
patchLinkInfoStream(d) ==
    IF Len(d) = 0 THEN [status |-> "ok", data |-> d]
    ELSE IF Len(d) < sizeof(LinkInfo) THEN InvalidPdb("got partial LinkInfo stream")
    ELSE IF Get(d, 0, LinkInfo, "size") > Len(d)
      THEN InvalidPdb("LinkInfo size too large for stream")
    ELSE [status |-> "ok", data |-> SubSeq(d, 1, Get(d, 0, LinkInfo, "size"))]

RECURSIVE Insert(_, _)
Insert(x, s) ==
    IF s = <<>> THEN <<x>>
    ELSE IF x < Head(s) THEN <<x>> \o s
    ELSE <<Head(s)>> \o Insert(x, Tail(s))

\* std::sort of unsigned integers
RECURSIVE Sort(_)
Sort(s) == IF s = <<>> THEN <<>> ELSE Insert(Head(s), Sort(Tail(s)))

\* The loop of patchNamesStream over the sorted offsets array at offsets.
RECURSIVE NamesLoop(_, _, _, _, _, _)
NamesLoop(d, strings, stringsSize, offsets, offsetsLength, i) ==
    IF i >= offsetsLength THEN [status |-> "ok", data |-> d]
    ELSE LET offset == d[offsets + i + 1]
             len    == strlen(d, strings + offset)
         IN  IF offset = 0
               THEN NamesLoop(d, strings, stringsSize, offsets, offsetsLength, i + 1)
             ELSE IF offset >= stringsSize
               THEN InvalidPdb("got invalid offset into string table")
             ELSE IF offset + len + 1 > stringsSize
               THEN InvalidPdb("got invalid offset into string table")
             ELSE NamesLoop(normalizeFileNameGuid(d, strings + offset, len),
                            strings, stringsSize, offsets, offsetsLength, i + 1)

\* patchNamesStream
patchNamesStream(d) ==
    LET strings       == sizeof(StringTableHeader)
        stringsSize   == Get(d, 0, StringTableHeader, "stringsSize")
        p1            == strings + stringsSize
        offsetsLength == d[p1 + 1]
        offsets       == p1 + 1
        sorted        == Poke(d, offsets, Sort(Peek(d, offsets, offsetsLength)))
    IN  IF Len(d) < sizeof(StringTableHeader)
          THEN InvalidPdb("missing string table header")
        ELSE IF Get(d, 0, StringTableHeader, "signature") # kHashTableSignature
          THEN InvalidPdb("got invalid string table signature")
        ELSE IF Get(d, 0, StringTableHeader, "version") \notin {1, 2}
          THEN InvalidPdb("got invalid or unsupported string table version")
        ELSE IF Len(d) - strings < stringsSize
          THEN InvalidPdb("got partial string table data")
        ELSE IF Len(d) - p1 < 1
          THEN InvalidPdb("missing string table offset array length")
        ELSE IF Len(d) - offsets < offsetsLength
          THEN InvalidPdb("got partial string table offsets array")
        ELSE NamesLoop(sorted, strings, stringsSize, offsets, offsetsLength, 0)

\* The part of patchHeaderStream that rewrites one named stream: patch is
\* "LinkInfo" or "names".
PatchNamedStream(f, streams, table, name, patch) ==
    IF name \notin DOMAIN table THEN [status |-> "ok", streams |-> streams]
    ELSE IF getStream(streams, table[name]).kind = "null"
      THEN InvalidPdb(IF patch = "LinkInfo" THEN "missing '/LinkInfo' stream"
                      ELSE "missing '/names' stream")
    ELSE Let(MsfMemoryStream_copy(f, getStream(streams, table[name])).data,
             LAMBDA d :
         Let(IF patch = "LinkInfo" THEN patchLinkInfoStream(d)
             ELSE patchNamesStream(d), LAMBDA r :
             IF r.status # "ok" THEN r
             ELSE [status  |-> "ok",
                   streams |-> replaceStream(streams, table[name],
                                             MsfMemoryStream(r.data))]))

\* patchHeaderStream: d is the data of the copy of the header stream; the
\* patched data and the streams of the MsfFile.
patchHeaderStream(f, streams, d, img, info, signature) ==
    IF Len(d) < sizeof(PdbStream70) THEN InvalidPdb("missing PDB 7.0 header")
    ELSE IF Get(d, 0, PdbStream70, "version") < PdbVersion_vc70
      THEN InvalidPdb("unsupported PDB implementation version")
    ELSE IF info = NULL \/ ~matchingSignatures(img, info, d)
      THEN InvalidPdb("PE and PDB signatures do not match")
    ELSE
    Let(Poke(Set(Set(d, 0, PdbStream70, "timestamp", timestamp),
                 0, PdbStream70, "age", 1),
             offsetof(PdbStream70, "sig70"), signature), LAMBDA d1 :
    Let(readNameMapTable(d1, sizeof(PdbStream70)), LAMBDA t :
    IF t.status # "ok" THEN t
    ELSE
    Let(PatchNamedStream(f, streams, t.table, sLinkInfo, "LinkInfo"), LAMBDA l :
    IF l.status # "ok" THEN l
    ELSE
    Let(PatchNamedStream(f, l.streams, t.table, sNames, "names"), LAMBDA n :
    IF n.status # "ok" THEN n
    ELSE [status |-> "ok", data |-> d1, streams |-> n.streams]))))

\* The cell at offset k of d; a read past the end of d yields wild.
At(d, k) == IF k >= 0 /\ k < Len(d) THEN d[k + 1] ELSE wild

\* patchModuleStream
patchModuleStream(d) ==
    LET data    == 1
        name    == data + offsetof(OBJNAMESYM, "signature") + 1
        namelen == strlen(d, name)
    IN  IF Len(d) < 1 THEN InvalidPdb("got partial module info stream")
        ELSE IF d[1] # CV_SIGNATURE_C13 THEN [status |-> "ok", data |-> d]
        ELSE IF Len(d) - data < offsetof(OBJNAMESYM, "signature")
          THEN InvalidPdb("missing symbol record in module info stream")
        ELSE IF Get(d, data, OBJNAMESYM, "rectyp") # S_OBJNAME
          THEN [status |-> "ok", data |-> d]
        ELSE IF At(d, data + offsetof(OBJNAMESYM, "signature")) # 0
          THEN InvalidPdb("got invalid OBJNAMESYM symbol record signature")
        ELSE IF Len(d) - data < Get(d, data, OBJNAMESYM, "reclen")
          THEN InvalidPdb("got partial OBJNAMESYM symbol record")
        ELSE IF name + namelen + 1 > Len(d)
          THEN InvalidPdb("object path in symbol record is not null-terminated")
        ELSE [status |-> "ok", data |-> normalizeFileNameGuid(d, name, namelen)]

\* ModuleInfo::size of the ModuleInfo at offset info of d.
ModuleInfo_size(d, info) ==
    LET names == info + sizeof(ModuleInfo)
        m     == strlen(d, names)
        o     == strlen(d, names + m + 1)
    IN  ((sizeof(ModuleInfo) + m + 1 + o + 1 + 3) \div 4) * 4

\* The loop of patchDbiStream over the module info entries, which start at
\* offset base of d.  "hang" is the loop that never advances.
RECURSIVE ModuleInfoLoop(_, _, _, _, _, _, _)
ModuleInfoLoop(f, streams, d, base, gpModInfoSize, i, moduleCount) ==
    IF i >= gpModInfoSize
      THEN [status |-> "ok", data |-> d, streams |-> streams,
            moduleCount |-> moduleCount]
    ELSE IF gpModInfoSize - i < sizeof(ModuleInfo)
      THEN InvalidPdb("got partial DBI module info")
    ELSE
      Let(Set(Set(Set(d, base + i, ModuleInfo, "sc.padding1", 0),
                  base + i, ModuleInfo, "sc.padding2", 0),
              base + i, ModuleInfo, "offsets", 0), LAMBDA d1 :
      LET info  == base + i
          names == info + sizeof(ModuleInfo)
          moduleName == CStr(d1, names)
          objectName == CStr(d1, names + Len(moduleName) + 1)
          stream == Get(d1, info, ModuleInfo, "stream")
          next  == i + ModuleInfo_size(d1, info)
      IN  IF moduleName = sManifestRes /\ objectName = <<>>
            THEN IF getStream(streams, stream).kind = "null"
                   THEN [status |-> "hang"]
                 ELSE Let(patchModuleStream(
                              MsfMemoryStream_copy(f, getStream(streams, stream)).data),
                          LAMBDA r :
                      IF r.status # "ok" THEN r
                      ELSE ModuleInfoLoop(f,
                               replaceStream(streams, stream, MsfMemoryStream(r.data)),
                               d1, base, gpModInfoSize, next, moduleCount + 1))
          ELSE ModuleInfoLoop(f, streams, d1, base, gpModInfoSize, next,
                              moduleCount + 1))

\* The loop of patchDbiStream over the section contributions at offset base.
RECURSIVE SectionContribLoop(_, _, _, _)
SectionContribLoop(d, base, i, scCount) ==
    IF i >= scCount THEN d
    ELSE SectionContribLoop(
             Set(Set(d, base + i * sizeof(SectionContribution),
                     SectionContribution, "padding1", 0),
                 base + i * sizeof(SectionContribution),
                 SectionContribution, "padding2", 0),
             base, i + 1, scCount)

RECURSIVE SumCells(_, _, _)
SumCells(d, p, n) == IF n <= 0 THEN 0 ELSE At(d, p) + SumCells(d, p + 1, n - 1)

\* The loop of patchDbiStream over the file names: offsets and names are
\* offsets in d, pEnd is the end of the file info.
RECURSIVE FileNamesLoop(_, _, _, _, _, _)
FileNamesLoop(d, offsets, names, pEnd, i, offsetCount) ==
    IF i >= offsetCount THEN [status |-> "ok", data |-> d]
    ELSE LET off  == d[offsets + i + 1]
             name == names + off
             len  == strlen(d, name)
         IN  IF names + off + 1 > pEnd
               THEN InvalidPdb("invalid offset for file info name")
             ELSE IF name + len + 1 > pEnd
               THEN InvalidPdb("file name exceeds file info section size")
             ELSE FileNamesLoop(normalizeFileNameGuid(d, name, len),
                                offsets, names, pEnd, i + 1, offsetCount)

\* The file info part of patchDbiStream: the file info is at offset p0 of d.
PatchFileInfo(d, p0, fileInfoSize, moduleCount) ==
    LET pEnd        == p0 + fileInfoSize
        fileCounts  == p0 + sizeof(FileInfoHeader) + moduleCount
        offsets     == fileCounts + moduleCount
        offsetCount == SumCells(d, fileCounts, moduleCount)
        names       == offsets + offsetCount
    IN  IF p0 + fileInfoSize > Len(d) THEN InvalidPdb("Missing file info in DBI stream")
        ELSE IF offsets >= pEnd THEN InvalidPdb("got partial file info in DBI stream")
        ELSE IF names >= pEnd THEN InvalidPdb("got partial file info in DBI stream")
        ELSE FileNamesLoop(d, offsets, names, pEnd, 0, offsetCount)

\* patchDbiStream: d is the data of the copy of the DBI stream.
patchDbiStream(f, streams, d) ==
    LET dbi(name) == Get(d, 0, DbiHeader, name)
        o1  == sizeof(DbiHeader)
        o2  == o1 + dbi("gpModInfoSize")
        o3  == o2 + dbi("sectionContributionSize") + dbi("sectionMapSize")
    IN  IF Len(d) < sizeof(DbiHeader) THEN InvalidPdb("DBI stream too short")
        ELSE IF dbi("signature") # dbiHeaderSignature
          THEN InvalidPdb("invalid DBI header signature")
        ELSE IF dbi("version") # DbiVersion_v70
          THEN InvalidPdb("Unsupported DBI stream version")
        ELSE IF o1 + dbi("gpModInfoSize") > Len(d)
          THEN InvalidPdb("DBI module info size exceeds stream length")
        ELSE
        Let(ModuleInfoLoop(f, streams, Set(d, 0, DbiHeader, "age", 1), o1,
                           dbi("gpModInfoSize"), 0, 0), LAMBDA m :
        IF m.status # "ok" THEN m
        ELSE IF o2 + dbi("sectionContributionSize") > Len(d)
          THEN InvalidPdb("DBI section contributions size exceeds stream length")
        ELSE
        Let(SectionContribLoop(m.data, o2, 0,
                dbi("sectionContributionSize") \div sizeof(SectionContribution)),
            LAMBDA d2 :
        IF dbi("fileInfoSize") > 0
          THEN Let(PatchFileInfo(d2, o3, dbi("fileInfoSize"), m.moduleCount),
                   LAMBDA fi :
                   IF fi.status # "ok" THEN fi
                   ELSE [status |-> "ok", data |-> fi.data, streams |-> m.streams])
        ELSE [status |-> "ok", data |-> d2, streams |-> m.streams]))

\* The uint16_t field f of the struct T (a byte layout) at offset p of d.
Get16(d, p, T, f) ==
    d[p + offsetof(T, f) + 1] + 256 * d[p + offsetof(T, f) + 2]

\* A scan that starts five bytes before the end of the data.
TailStart_five(dataLength) == size_t(dataLength - 5)

\* size_t tail = dataLength - 3
TailStart(dataLength) == size_t(dataLength - 3)

\* The index of rec->data[tail]: the address wraps around as tail does.
RecDataIndex(tail) ==
    IF tail < 2 ^ (SizeBits - 1) THEN tail ELSE tail - 2 ^ SizeBits

\* The first while loop of patchSymbolRecordsStream: data is the offset of
\* rec->data in d.
RECURSIVE FindTail(_, _, _, _)
FindTail(d, data, tail, dataLength) ==
    IF size_t(tail + 1) < dataLength /\ At(d, data + RecDataIndex(tail)) # 0
      THEN FindTail(d, data, size_t(tail + 1), dataLength)
    ELSE tail

\* The indices of rec->data that loop reads.
RECURSIVE FindTail_reads(_, _, _, _)
FindTail_reads(d, data, tail, dataLength) ==
    IF size_t(tail + 1) < dataLength
      THEN {RecDataIndex(tail)}
             \cup (IF At(d, data + RecDataIndex(tail)) # 0
                     THEN FindTail_reads(d, data, size_t(tail + 1), dataLength)
                   ELSE {})
    ELSE {}

\* The indices of rec->data the second while loop writes.
ZeroTail_writes(tail, dataLength) ==
    IF tail < dataLength THEN tail..(dataLength - 1) ELSE {}

\* The loop of patchSymbolRecordsStream over the records.  log has, for
\* each record passed, its offset, its dataLength and the indices of its
\* data read and written.
RECURSIVE SymbolRecordsLoop(_, _)
SymbolRecordsLoop(d, i) ==
    IF i >= Len(d) THEN [status |-> "ok", data |-> d, log |-> <<>>]
    ELSE IF Len(d) - i < sizeof(SymbolRecord) THEN InvalidPdb("got partial symbol record")
    ELSE
      LET length     == Get16(d, i, SymbolRecord, "length")
          dataLength == length - fieldlen(SymbolRecord, "type")
          data       == i + sizeof(SymbolRecord)
      IN  IF length < fieldlen(SymbolRecord, "type")
             \/ (length + fieldlen(SymbolRecord, "length")) % 4 # 0
            THEN InvalidPdb("invalid symbol record size")
          ELSE IF i + sizeof(SymbolRecord) + dataLength > Len(d)
            THEN InvalidPdb("symbol record size too large")
          ELSE
          Let(FindTail(d, data, TailStart(dataLength), dataLength), LAMBDA tail :
          Let(SymbolRecordsLoop(
                  [k \in 1..Len(d) |->
                      IF (k - 1 - data) \in ZeroTail_writes(tail, dataLength)
                        THEN 0 ELSE d[k]],
                  i + sizeof(SymbolRecord) + dataLength), LAMBDA r :
              IF r.status # "ok" THEN r
              ELSE [r EXCEPT !.log =
                      <<[i |-> i, dataLength |-> dataLength,
                         reads |-> FindTail_reads(d, data, TailStart(dataLength),
                                                  dataLength),
                         writes |-> ZeroTail_writes(tail, dataLength)]>> \o @]))

\* patchSymbolRecordsStream
patchSymbolRecordsStream(d) == SymbolRecordsLoop(d, 0)

\* patchPublicSymbolStream
patchPublicSymbolStream(d) ==
    IF Len(d) < sizeof(PublicSymbolHeader)
      THEN InvalidPdb("public symbol stream too short")
    ELSE [status |-> "ok",
          data   |-> Set(Set(d, 0, PublicSymbolHeader, "padding1", 0),
                         0, PublicSymbolHeader, "sectionCount", 0)]

\* The part of patchPDB(msf) after the DBI stream is patched: the stream of
\* number index is copied, patched and put back, when there is one.
PatchReferenced(f, streams, index, which) ==
    IF getStream(streams, index).kind = "null"
      THEN [status |-> "ok", streams |-> streams]
    ELSE Let(MsfMemoryStream_copy(f, getStream(streams, index)).data, LAMBDA d :
         Let(IF which = "symbolRecords" THEN patchSymbolRecordsStream(d)
             ELSE patchPublicSymbolStream(d), LAMBDA r :
             IF r.status # "ok" THEN r
             ELSE [status  |-> "ok",
                   streams |-> replaceStream(streams, index,
                                             MsfMemoryStream(r.data))]))

\* patchPDB(MsfFile&, ...): the streams of the MsfFile after the rewrite.  f
\* is the file behind the file streams, img and info the image and its
\* CV_INFO_PDB70.
patchPDB(f, streams, img, info, signature) ==
    IF streams = <<>> THEN Fault
    ELSE
    Let(replaceStream(streams, PdbStreamType.streamTable, NullStream), LAMBDA s0 :
    IF getStream(s0, PdbStreamType.header).kind = "null"
      THEN InvalidPdb("missing PDB header stream")
    ELSE
    Let(patchHeaderStream(f, s0,
            MsfMemoryStream_copy(f, getStream(s0, PdbStreamType.header)).data,
            img, info, signature), LAMBDA h :
    IF h.status # "ok" THEN h
    ELSE
    Let(replaceStream(h.streams, PdbStreamType.header, MsfMemoryStream(h.data)),
        LAMBDA s1 :
    IF getStream(s1, PdbStreamType.dbi).kind = "null"
      THEN [status |-> "ok", streams |-> s1]
    ELSE
    Let(patchDbiStream(f, s1,
            MsfMemoryStream_copy(f, getStream(s1, PdbStreamType.dbi)).data),
        LAMBDA dbi :
    IF dbi.status # "ok" THEN dbi
    ELSE
    Let(PatchReferenced(f,
            replaceStream(dbi.streams, PdbStreamType.dbi, MsfMemoryStream(dbi.data)),
            Get(dbi.data, 0, DbiHeader, "symbolRecordsStream"), "symbolRecords"),
        LAMBDA sym :
    IF sym.status # "ok" THEN sym
    ELSE
    Let(PatchReferenced(f, sym.streams,
            Get(dbi.data, 0, DbiHeader, "publicSymbolStream"), "publicSymbol"),
        LAMBDA pub :
    IF pub.status # "ok" THEN pub
    ELSE [status |-> "ok", streams |-> pub.streams]))))))

-----------------------------------------------------------------------------
(* patch_image.cpp, ducible/patch_ilk.cpp: the .ilk file *)

\* std::find_first_of(buf, bufEnd, s, s + 16): the offset of the first cell
\* of d that equals one of the cells of s, Len(d) (bufEnd) when there is none.
find_first_of(d, s) ==
    LET hits == {i \in 0..(Len(d) - 1) : \E k \in 1..Len(s) : d[i + 1] = s[k]}
    IN  IF hits = {} THEN Len(d) ELSE CHOOSE i \in hits : \A j \in hits : i <= j

\* The line patchIlk prints.
ReplacingLine == <<"Replacing old PDB signature in ILK file.">>

\* How a memcpy that runs past the end of the mapped file can end: the cells
\* past the end land in the rest of the last mapped page, or the process
\* faults before or after the cells inside the file are written.
Overruns == {"slack", "fault before", "fault after"}

\* memcpy(it, newSignature, 16) into the mapped file d; overrun is how it
\* ends when it + 16 is past bufEnd, and past the number of cells written
\* behind bufEnd.
memcpy(d, it, src, overrun) ==
    IF it + Len(src) <= Len(d)
      THEN [status |-> "ok", data |-> Poke(d, it, src), past |-> 0]
    ELSE IF overrun = "slack"
      THEN [status |-> "ok", data |-> Poke(d, it, src),
            past |-> it + Len(src) - Len(d)]
    ELSE IF overrun = "fault after"
      THEN [status |-> "fault", data |-> Poke(d, it, src), past |-> 0]
    ELSE [status |-> "fault", data |-> d, past |-> 0]

\* A file that is there but cannot be opened or mapped.
Denied == <<-3>>

\* MemMap::MemMap(path): the file mapped, or the std::system_error thrown
\* with the errno of the open, the stat or the map that failed.
MemMap(file) ==
    IF file = NoFile THEN [status |-> "system_error", errno |-> "ENOENT"]
    ELSE IF file = Denied THEN [status |-> "system_error", errno |-> "EACCES"]
    ELSE [status |-> "ok", buf |-> file]

\* patchIlk of patch_image.cpp, the one patchImageImpl calls: ilk is the
\* contents of the .ilk file, and the result its contents afterwards and
\* the lines printed.  A file that cannot be mapped is ignored.
patchIlk(ilk, oldSignature, newSignature, dry, overrun) ==
    IF MemMap(ilk).status = "system_error" THEN [status |-> "ok", ilk |-> ilk, out |-> <<>>, past |-> 0]
    ELSE Let(find_first_of(ilk, oldSignature), LAMBDA it :
         IF it = Len(ilk) THEN [status |-> "ok", ilk |-> ilk, out |-> <<>>, past |-> 0]
         ELSE Let(memcpy(ilk, it, newSignature, overrun), LAMBDA r :
              [status |-> r.status, ilk |-> r.data, out |-> <<ReplacingLine>>,
               past |-> r.past]))

\* patchIlkImpl of ducible/patch_ilk.cpp: the same, but the memcpy is
\* skipped on a dry run.
patchIlkImpl(ilk, oldSignature, newSignature, dry, overrun) ==
    IF MemMap(ilk).status = "system_error" THEN [status |-> "ok", ilk |-> ilk, out |-> <<>>, past |-> 0]
    ELSE Let(find_first_of(ilk, oldSignature), LAMBDA it :
         IF it = Len(ilk) THEN [status |-> "ok", ilk |-> ilk, out |-> <<>>, past |-> 0]
         ELSE IF dry
           THEN [status |-> "ok", ilk |-> ilk, out |-> <<ReplacingLine>>, past |-> 0]
         ELSE Let(memcpy(ilk, it, newSignature, overrun), LAMBDA r :
              [status |-> r.status, ilk |-> r.data, out |-> <<ReplacingLine>>,
               past |-> r.past]))

-----------------------------------------------------------------------------
(* The files the tool is run on *)

\* An image as a linker lays it out: the headers, one section header, and
\* in the section the export and resource directories (when p.exp, p.res
\* are not -1: they are the TimeDateStamp), the debug directories p.dbg
\* (each [ts, type]), the CV_INFO_PDB70 and the code.
MkImage(p) ==
    LET Opt     == IF p.magic = IMAGE_NT_OPTIONAL_HDR64_MAGIC
                     THEN IMAGE_OPTIONAL_HEADER64 ELSE IMAGE_OPTIONAL_HEADER32
        base   == sizeof(IMAGE_DOS_HEADER) + 1 + sizeof(IMAGE_FILE_HEADER)
                     + sizeof(Opt) + sizeof(IMAGE_SECTION_HEADER)
        va      == 256
        expOff  == base
        resOff  == expOff + (IF p.exp = -1 THEN 0 ELSE sizeof(IMAGE_EXPORT_DIRECTORY))
        dbgOff  == resOff + (IF p.res = -1 THEN 0 ELSE sizeof(IMAGE_RESOURCE_DIRECTORY))
        cvOff   == dbgOff + Len(p.dbg) * sizeof(IMAGE_DEBUG_DIRECTORY)
        size    == (cvOff - base) + sizeof(CV_INFO_PDB70) + Len(p.code)
        rva(o)  == va + (o - base)
        opt     == [i \in 1..Len(Opt) |->
                     CASE Opt[i] = "Magic"    -> p.magic
                       [] Opt[i] = "CheckSum" -> p.csum
                       [] Opt[i] = "Export.VirtualAddress" ->
                            IF p.exp = -1 THEN 0 ELSE rva(expOff)
                       [] Opt[i] = "Export.Size" ->
                            IF p.exp = -1 THEN 0 ELSE sizeof(IMAGE_EXPORT_DIRECTORY)
                       [] Opt[i] = "Resource.VirtualAddress" ->
                            IF p.res = -1 THEN 0 ELSE rva(resOff)
                       [] Opt[i] = "Resource.Size" ->
                            IF p.res = -1 THEN 0 ELSE sizeof(IMAGE_RESOURCE_DIRECTORY)
                       [] Opt[i] = "Debug.VirtualAddress" ->
                            IF p.dbg = <<>> THEN 0 ELSE rva(dbgOff)
                       [] Opt[i] = "Debug.Size" ->
                            Len(p.dbg) * sizeof(IMAGE_DEBUG_DIRECTORY)
                       [] OTHER -> 0]
    IN  <<IMAGE_DOS_SIGNATURE, 0, sizeof(IMAGE_DOS_HEADER)>>
        \o <<IMAGE_NT_SIGNATURE>>
        \o <<1, p.ts, sizeof(Opt)>>
        \o opt
        \o <<size, va, base>>
        \o (IF p.exp = -1 THEN <<>> ELSE <<0, p.exp>>)
        \o (IF p.res = -1 THEN <<>> ELSE <<0, p.res>>)
        \o Flatten([i \in 1..Len(p.dbg) |-> <<0, p.dbg[i].ts, p.dbg[i].type, cvOff>>])
        \o <<p.cvsig>> \o p.sig \o <<p.age, 0>>
        \o p.code

\* s filled up to whole pages of pageSize cells with the cell g.
PadPage(s, pageSize, g) ==
    s \o Repeat(g, (pageSize - (Len(s) % pageSize)) % pageSize)

\* The first page of each stream of ss laid out one after another from page
\* first, in pages of pageSize cells.
RECURSIVE FirstPages(_, _, _)
FirstPages(ss, pageSize, first) ==
    IF ss = <<>> THEN <<>>
    ELSE <<first>> \o FirstPages(Tail(ss), pageSize,
                                 first + pageCount(pageSize, Len(Head(ss))))

\* An MSF file as the linker writes it, in pages of pageSize cells: the
\* header page, the two free page maps, the streams ss, the stream table,
\* and the page that lists the pages of the stream table.  g fills the
\* pages behind the end of a stream.
MkMsf(pageSize, ss, g) ==
    LET firsts == FirstPages(ss, pageSize, 3)
        np(i)  == pageCount(pageSize, Len(ss[i]))
        a      == IF ss = <<>> THEN 3
                  ELSE firsts[Len(ss)] + np(Len(ss))
        st     == <<Len(ss)>> \o [i \in 1..Len(ss) |-> Len(ss[i])]
                  \o Flatten([i \in 1..Len(ss) |->
                                 [k \in 1..np(i) |-> firsts[i] + k - 1]])
        t      == pageCount(pageSize, Len(st))
        header == <<kMsfHeaderMagic, pageSize, 1, a + t + 1, Len(st), 0, a + t>>
    IN  PadPage(header, pageSize, 0)
        \o Repeat(0, 2 * pageSize)
        \o Flatten([i \in 1..Len(ss) |-> PadPage(ss[i], pageSize, g)])
        \o PadPage(st, pageSize, 0)
        \o PadPage([k \in 1..t |-> a + k - 1], pageSize, 0)

\* A GUID in text with the hexadecimal digits h.
GuidText(h) ==
    [i \in 1..Len(guidRegex) |->
        CASE guidRegex[i] = "{"   -> 123
          [] guidRegex[i] = "}"   -> 125
          [] guidRegex[i] = "-"   -> 45
          [] guidRegex[i] = "hex" ->
               h[Cardinality({k \in 1..i : guidRegex[k] = "hex"})]]

\* A symbol record (bytes): a public symbol with the given name, the
\* terminating NUL and the padding bytes pad.
SymRec(name, pad) ==
    LET length == fieldlen(SymbolRecord, "type") + Len(name) + 1 + Len(pad)
    IN  <<length % 256, length \div 256, 14, 17>> \o name \o <<0>> \o pad

\* No stream (uint16_t)-1.
invalidStream == 65535

\* The streams of a PDB as the linker writes it.  q gives what differs from
\* link to link: the timestamp, age and GUID, the garbage in padding fields
\* (pad), the symbol records (each [name, pad]), the order of the /names
\* offsets (rev), the GUIDs in file names (guids, one or more per name) and
\* the cells behind the LinkInfo (trail).
MkPdbStreams(q) ==
    LET tmpName == Flatten([i \in 1..Len(q.guids) |-> GuidText(q.guids[i])])
                   \o q.ext \o <<0>>
        header  == <<PdbVersion_vc70, q.ts, q.age>> \o q.sig
                   \o <<Len(sLinkInfo) + Len(sNames) + 2>>
                   \o sLinkInfo \o <<0>> \o sNames \o <<0>>
                   \o <<2, 4>> \o <<1, 3>> \o <<0>>
                   \o <<0, 7, Len(sLinkInfo) + 1, 6>>
        m1      == <<0, 1, q.pad, 0, q.pad, 8, q.pad, 0>>
                   \o sManifestRes \o <<0, 0>>
        m2      == <<0, 1, q.pad, 0, q.pad, invalidStream, q.pad, 0>>
                   \o <<109, 0, 111, 0>>
        mods    == PadPage(m1, 4, 0) \o PadPage(m2, 4, 0)
        scs     == <<1, q.pad, 0, q.pad, 2, q.pad, 16, q.pad>>
        files   == <<2, 2>> \o <<0, 1>> \o <<1, 1>> \o <<0, Len(tmpName)>>
                   \o tmpName \o <<99, 0>>
        dbi     == <<dbiHeaderSignature, DbiVersion_v70, q.age, invalidStream, 5, 4,
                     Len(mods), Len(scs), 1, Len(files), 0, 0, 0>>
                   \o mods \o scs \o <<0>> \o files
        symrec  == Flatten([i \in 1..Len(q.sym) |-> SymRec(q.sym[i].name, q.sym[i].pad)])
        pubsym  == <<0, 0, 0, 0, 1, q.pad, 0, q.pad, 3, 3>>
        strings == <<0, 97, 0>> \o tmpName
        names   == <<kHashTableSignature, 1, Len(strings)>> \o strings
                   \o <<3>> \o (IF q.rev THEN <<3, 1, 0>> ELSE <<0, 1, 3>>) \o <<3>>
        link    == <<sizeof(LinkInfo) + 2, 2, sizeof(LinkInfo), sizeof(LinkInfo) + 1,
                     0, sizeof(LinkInfo) + 2>> \o <<99, 0>> \o q.trail
        module  == <<CV_SIGNATURE_C13, Len(tmpName) + 3, S_OBJNAME, 0>> \o tmpName
    IN  <<<<9, 9>>, header, <<5, 5, 5>>, dbi, symrec, pubsym, names, link, module>>

-----------------------------------------------------------------------------
(* The inputs of the runs *)

\* How many times the tool is run in a row, each run on the files the run
\* before it left.
MaxRuns == 2

\* What a read outside a buffer may yield.
Wild == {0, 205}

\* The k-th PDB signature a linker made up.
Sig(k) == [i \in 1..SigLen |-> 10 * k + i]

\* A PE32 image with an export directory and two debug directories, the
\* second of them the CodeView entry.
ImageA ==
    [magic |-> IMAGE_NT_OPTIONAL_HDR32_MAGIC, ts |-> 7, csum |-> 9, exp |-> 5,
     res |-> -1, dbg |-> <<[ts |-> 3, type |-> 1], [ts |-> 0, type |-> 2]>>,
     cvsig |-> CV_INFO_SIGNATURE_PDB70, sig |-> Sig(1), age |-> 3,
     code |-> <<10, 11>>]

\* A PE32+ image with a resource directory and one debug directory.
ImageB ==
    [ImageA EXCEPT !.magic = IMAGE_NT_OPTIONAL_HDR64_MAGIC, !.exp = -1, !.res = 6,
                   !.dbg = <<[ts |-> 5, type |-> 2]>>, !.sig = Sig(2), !.age = 2]

\* Images without a debug directory, with two CodeView entries, with an
\* optional header that is neither PE32 nor PE32+, with an old CodeView
\* record ("NB10").
ImageNoDebug == [ImageA EXCEPT !.dbg = <<>>]

ImageTwoCodeViews ==
    [ImageA EXCEPT !.dbg = <<[ts |-> 3, type |-> 2], [ts |-> 4, type |-> 2]>>]

ImageRom == [ImageA EXCEPT !.magic = 263]

ImageNB10 == [ImageA EXCEPT !.cvsig = 808534606]

\* The PDB of ImageA, and the PDB of ImageB.
PdbA ==
    [ts |-> 7, age |-> 3, sig |-> Sig(1), pad |-> 77,
     sym |-> <<[name |-> <<97, 98, 99, 100>>, pad |-> <<1, 2, 3>>],
               [name |-> <<97>>, pad |-> <<5, 6>>]>>,
     rev |-> TRUE, guids |-> <<<<97, 98, 99, 100, 101, 102, 48, 49>>>>,
     ext |-> <<46, 116>>, trail |-> <<8, 8, 8>>]

PdbB ==
    [PdbA EXCEPT !.sig = Sig(2), !.age = 2, !.pad = 0, !.rev = FALSE,
                 !.sym = <<[name |-> <<97, 98>>, pad |-> <<0>>]>>,
                 !.trail = <<>>]

\* The PDB file a linker writes for q, in pages of pageSize cells.
PdbFile(q, pageSize) == MkMsf(pageSize, MkPdbStreams(q), 204)

\* .ilk files of an image whose PDB signature is sig: one that holds the
\* signature, one that holds a cell of it before the signature, one that
\* ends with the first cell of it.
IlkWhole(sig) == <<0, 1>> \o sig \o <<2>> \o sig \o <<3>>

IlkPart(sig) == <<0, sig[SigLen], 1>> \o sig \o <<2, 3>>

IlkEnd(sig) == <<0, 1, 2, sig[1]>>

\* The runs checked: the image, the PDB file (NoFile when there is no file
\* at pdbPath), whether a pdbPath is given, and the .ilk file.
Scenarios ==
    {[image |-> ImageA, havePdb |-> FALSE, pdb |-> NoFile, ilk |-> IlkWhole(Sig(1))],
     [image |-> ImageA, havePdb |-> TRUE, pdb |-> PdbFile(PdbA, kPageSize),
      ilk |-> IlkWhole(Sig(1))],
     [image |-> ImageA, havePdb |-> TRUE, pdb |-> PdbFile(PdbA, kPageSize \div 2),
      ilk |-> IlkPart(Sig(1))],
     [image |-> ImageB, havePdb |-> TRUE, pdb |-> PdbFile(PdbB, kPageSize),
      ilk |-> IlkEnd(Sig(2))],
     [image |-> ImageB, havePdb |-> TRUE, pdb |-> PdbFile(PdbB, 2 * kPageSize),
      ilk |-> NoFile],
     [image |-> ImageA, havePdb |-> TRUE, pdb |-> PdbFile(PdbB, kPageSize),
      ilk |-> NoFile],
     [image |-> ImageA, havePdb |-> TRUE,
      pdb |-> Poke(PdbFile(PdbA, kPageSize), 0, <<0>>), ilk |-> NoFile],
     [image |-> ImageA, havePdb |-> TRUE, pdb |-> NoFile, ilk |-> NoFile],
     [image |-> ImageNoDebug, havePdb |-> TRUE, pdb |-> PdbFile(PdbA, kPageSize),
      ilk |-> IlkWhole(Sig(1))],
     [image |-> ImageNoDebug, havePdb |-> FALSE, pdb |-> NoFile,
      ilk |-> IlkWhole(Sig(1))],
     [image |-> ImageTwoCodeViews, havePdb |-> TRUE,
      pdb |-> PdbFile(PdbA, kPageSize), ilk |-> NoFile],
     [image |-> ImageRom, havePdb |-> FALSE, pdb |-> NoFile, ilk |-> NoFile],
     [image |-> ImageNB10, havePdb |-> FALSE, pdb |-> NoFile, ilk |-> NoFile]}

-----------------------------------------------------------------------------
(* patchImageImpl, step by step *)

\* The files as a run finds them.
Files == [image |-> image, pdbFile |-> pdbFile, ilkFile |-> ilkFile]

\* The objects of patchImageImpl before it has run.
Fresh ==
    /\ pc = "parse" /\ pe = <<>> /\ patches = <<>> /\ pdbInfo = NULL
    /\ msf = <<>> /\ out = <<>> /\ result = "" /\ steps = <<>>

Init ==
    /\ \E sc \in Scenarios :
         /\ image = MkImage(sc.image)
         /\ havePdb = sc.havePdb
         /\ pdbFile = sc.pdb
         /\ ilkFile = sc.ilk
    /\ tmpFile = NoFile
    /\ dryrun \in BOOLEAN
    /\ wild \in Wild
    /\ run = 1
    /\ Fresh
    /\ start = Files

\* patchImageImpl is left by an exception (or the process dies): how.
Throw(how) == result' = how /\ pc' = "done"

\* The step named step is taken.
Step(step) == steps' = Append(steps, step)

\* MemMap image, PEFile pe, patches.add of the file header and the switch
\* on pe.magic().
ParsePE ==
    /\ pc = "parse"
    /\ Step("parse")
    /\ \E unset \in {0, 1} :
         Let(CollectPatches(image, unset), LAMBDA r :
             IF r.status = "ok"
               THEN /\ pe' = r.pe
                    /\ patches' = r.patches
                    /\ pdbInfo' = r.pdbInfo
                    /\ pc' = "sort"
                    /\ UNCHANGED result
             ELSE /\ Throw(r.status)
                  /\ UNCHANGED <<pe, patches, pdbInfo>>)
    /\ UNCHANGED <<image, pdbFile, tmpFile, ilkFile, havePdb, dryrun, wild, msf,
                   out, run, start>>

\* patches.sort()
SortPatches ==
    /\ pc = "sort"
    /\ Step("sort")
    /\ patches' = Patches_sort(patches)
    /\ pc' = "digest"
    /\ UNCHANGED <<image, pdbFile, tmpFile, ilkFile, havePdb, dryrun, wild, pe,
                   pdbInfo, msf, out, result, run, start>>

\* A faulty CalculateChecksum, which stores the signature in the image as
\* soon as it is computed: C1 must tell it from the real one.
CalculateChecksum_eager ==
    /\ pc = "digest"
    /\ Step("digest")
    /\ Let(calculateChecksum(image, patches), LAMBDA r :
           IF r.status = "ok"
             THEN /\ pe' = [pe EXCEPT !.pdbSignature = r.output]
                  /\ image' = IF pdbInfo = NULL THEN image
                              ELSE Poke(image,
                                        pdbInfo - buf + offsetof(CV_INFO_PDB70, "Signature"),
                                        r.output)
                  /\ pc' = IF havePdb THEN "pdb open" ELSE "ilk"
                  /\ UNCHANGED result
           ELSE Throw(r.status) /\ UNCHANGED <<pe, image>>)
    /\ UNCHANGED <<pdbFile, tmpFile, ilkFile, havePdb, dryrun, wild,
                   patches, pdbInfo, msf, out, run, start>>

\* calculateChecksum(buf, length, patches.patches, pe.pdbSignature)
CalculateChecksum ==
    /\ pc = "digest"
    /\ Step("digest")
    /\ Let(calculateChecksum(image, patches), LAMBDA r :
           IF r.status = "ok"
             THEN /\ pe' = [pe EXCEPT !.pdbSignature = r.output]
                  /\ pc' = IF havePdb THEN "pdb open" ELSE "ilk"
                  /\ UNCHANGED result
           ELSE Throw(r.status) /\ UNCHANGED pe)
    /\ UNCHANGED <<image, pdbFile, tmpFile, ilkFile, havePdb, dryrun, wild,
                   patches, pdbInfo, msf, out, run, start>>

\* patchPDB(pdbPath, ...): openFile of the PDB and of the temporary file,
\* then MsfFile msf(pdb).  Opening the temporary file may fail.
OpenPdb ==
    /\ pc = "pdb open"
    /\ Step("pdb open")
    /\ \E opened \in BOOLEAN :
         IF pdbFile = NoFile
           THEN Throw("system_error") /\ UNCHANGED <<tmpFile, msf>>
         ELSE IF ~opened
           THEN Throw("system_error") /\ UNCHANGED <<tmpFile, msf>>
         ELSE /\ tmpFile' = <<>>
              /\ Let(MsfFile_ctor(pdbFile), LAMBDA r :
                     IF r.status = "ok"
                       THEN msf' = r.streams /\ pc' = "pdb patch" /\ UNCHANGED result
                     ELSE Throw(r.status) /\ UNCHANGED msf)
    /\ UNCHANGED <<image, pdbFile, ilkFile, havePdb, dryrun, wild, pe, patches,
                   pdbInfo, out, run, start>>

\* patchPDB(msf, pdbInfo, timestamp, signature)
PatchPdbStreams ==
    /\ pc = "pdb patch"
    /\ Step("pdb patch")
    /\ Let(patchPDB(pdbFile, msf, image, pdbInfo, pe.pdbSignature), LAMBDA r :
           IF r.status = "ok"
             THEN msf' = r.streams /\ pc' = "pdb write" /\ UNCHANGED result
           ELSE Throw(r.status) /\ UNCHANGED msf)
    /\ UNCHANGED <<image, pdbFile, tmpFile, ilkFile, havePdb, dryrun, wild, pe,
                   patches, pdbInfo, out, run, start>>

\* A faulty WritePdb, which writes the PDB in place: C9 must tell it from
\* the real one.
WritePdb_inplace ==
    /\ pc = "pdb write"
    /\ Step("pdb write")
    /\ \E written \in BOOLEAN :
         IF ~written
           THEN Throw("system_error") /\ pdbFile' = kBlankPage
         ELSE Let(MsfFile_write(pdbFile, msf), LAMBDA r :
                  /\ pdbFile' = r.f
                  /\ IF r.status = "ok" THEN pc' = "pdb close" /\ UNCHANGED result
                     ELSE Throw(r.status))
    /\ tmpFile' = pdbFile
    /\ UNCHANGED <<image, ilkFile, havePdb, dryrun, wild, pe, patches,
                   pdbInfo, msf, out, run, start>>

\* msf.write(tmpPdb); a write may fail, here after the first page.
WritePdb ==
    /\ pc = "pdb write"
    /\ Step("pdb write")
    /\ \E written \in BOOLEAN :
         IF ~written
           THEN Throw("system_error") /\ tmpFile' = kBlankPage
         ELSE Let(MsfFile_write(pdbFile, msf), LAMBDA r :
                  /\ tmpFile' = r.f
                  /\ IF r.status = "ok" THEN pc' = "pdb close" /\ UNCHANGED result
                     ELSE Throw(r.status))
    /\ UNCHANGED <<image, pdbFile, ilkFile, havePdb, dryrun, wild, pe, patches,
                   pdbInfo, msf, out, run, start>>

\* The end of patchPDB(pdbPath, ...): the files are closed, and the
\* temporary file is deleted or renamed; either may fail.
ClosePdb ==
    /\ pc = "pdb close"
    /\ \E done \in BOOLEAN :
         IF ~done
           THEN /\ Throw("system_error")
                /\ Step(IF dryrun THEN "pdb delete failed" ELSE "pdb rename failed")
                /\ UNCHANGED <<pdbFile, tmpFile>>
         ELSE IF dryrun
           THEN /\ Step("pdb delete")
                /\ tmpFile' = NoFile
                /\ pc' = "ilk"
                /\ UNCHANGED <<pdbFile, result>>
         ELSE /\ Step("pdb rename")
              /\ pdbFile' = tmpFile
              /\ tmpFile' = NoFile
              /\ pc' = "ilk"
              /\ UNCHANGED result
    /\ msf' = <<>>
    /\ UNCHANGED <<image, ilkFile, havePdb, dryrun, wild, pe, patches, pdbInfo,
                   out, run, start>>

\* if (pdbInfo) patchIlk(imagePath, pdbInfo->Signature, pe.pdbSignature, dryrun)
PatchIlk ==
    /\ pc = "ilk"
    /\ Step("ilk")
    /\ IF pdbInfo = NULL
         THEN pc' = "apply" /\ UNCHANGED <<ilkFile, out, result>>
       ELSE \E overrun \in Overruns :
              Let(patchIlk(ilkFile,
                           Peek(image, pdbInfo - buf + offsetof(CV_INFO_PDB70, "Signature"),
                                SigLen),
                           pe.pdbSignature, dryrun, overrun), LAMBDA r :
                  /\ ilkFile' = r.ilk
                  /\ out' = out \o r.out
                  /\ IF r.status = "ok" THEN pc' = "apply" /\ UNCHANGED result
                     ELSE Throw(r.status))
    /\ UNCHANGED <<image, pdbFile, tmpFile, havePdb, dryrun, wild, pe, patches,
                   pdbInfo, msf, run, start>>

\* patches.apply(dryrun), and patchImageImpl returns.
ApplyPatches ==
    /\ pc = "apply"
    /\ Step("apply")
    /\ Let(Patches_apply(image, pe, patches, dryrun, out), LAMBDA r :
           image' = r.img /\ out' = r.out)
    /\ result' = "ok"
    /\ pc' = "done"
    /\ UNCHANGED <<pdbFile, tmpFile, ilkFile, havePdb, dryrun, wild, pe, patches,
                   pdbInfo, msf, run, start>>

\* The tool is run again, with the same arguments, on the files it left.
RunAgain ==
    /\ pc = "done" /\ result = "ok" /\ ~dryrun /\ run < MaxRuns
    /\ run' = run + 1
    /\ pc' = "parse" /\ pe' = <<>> /\ patches' = <<>> /\ pdbInfo' = NULL
    /\ msf' = <<>> /\ out' = <<>> /\ result' = "" /\ steps' = <<>>
    /\ start' = Files
    /\ UNCHANGED <<image, pdbFile, tmpFile, ilkFile, havePdb, dryrun, wild>>

Next ==
    \/ ParsePE
    \/ SortPatches
    \/ CalculateChecksum
    \/ OpenPdb
    \/ PatchPdbStreams
    \/ WritePdb
    \/ ClosePdb
    \/ PatchIlk
    \/ ApplyPatches
    \/ RunAgain

Spec == Init /\ [][Next]_vars

-----------------------------------------------------------------------------
(* Properties of a run *)

\* The ways a run ends other than by returning.
Failures == {"InvalidImage", "InvalidMsf", "InvalidPdb", "system_error", "fault", "hang"}

\* The steps that patches.apply comes after.
StepsBeforeApply ==
    IF havePdb
      THEN <<"parse", "sort", "digest", "pdb open", "pdb patch", "pdb write",
             IF dryrun THEN "pdb delete" ELSE "pdb rename", "ilk">>
    ELSE <<"parse", "sort", "digest", "ilk">>

\* C1: no partial writes to the image.  As long as the run has not returned
\* successfully (it is still running, or it ended with InvalidImage,
\* InvalidMsf, InvalidPdb, a system error or a fault), every cell of the
\* image has the value it had at entry; and the image is written only by
\* the step patches.apply, which is taken only after PE parsing, patch
\* collection, the sort, the digest, the PDB rewrite and the ILK patch have
\* all been taken and returned.
C1_NoPartialWrites ==
    /\ [](result # "ok" => image = start.image)
    /\ [][image' # image =>
            /\ pc = "apply" /\ pc' = "done" /\ result' = "ok"
            /\ steps = StepsBeforeApply]_vars

\* A run that failed in the PDB rewrite or in the ILK patch, with patches
\* collected whose targets do not hold their replacement yet.
C1_Witness ==
    /\ result \in {"InvalidPdb", "InvalidMsf", "system_error", "fault"}
    /\ Len(steps) > 3
    /\ \E i \in 1..Len(patches) :
          Peek(image, patches[i].offset, patches[i].length) # PatchData(patches[i], pe)
    /\ image = start.image

\* The cells of img outside the ranges of the patches ps, in increasing
\* order of offset.
OutsidePatches(img, ps) ==
    LET keep == {i \in 1..Len(img) :
                   \A k \in 1..Len(ps) :
                      ~(i - 1 >= ps[k].offset /\ i - 1 < ps[k].offset + ps[k].length)}
    IN  [j \in 1..Cardinality(keep) |->
            img[CHOOSE i \in keep : Cardinality({x \in keep : x < i}) = j - 1]]

\* The first cells of the PDB info stream (stream 1) of the PDB file f.
PdbStream70Of(f) ==
    Let(MsfFile_ctor(f), LAMBDA m :
        StreamRead(f, m.streams[PdbStreamType.header + 1], 0, sizeof(PdbStream70)))

\* The field of the CV_INFO_PDB70 of the image.
CvField(img, field) ==
    Peek(img, pdbInfo - buf + offsetof(CV_INFO_PDB70, field),
         fieldlen(CV_INFO_PDB70, field))

\* A run with a PDB, on an image with a CodeView entry, has returned.
Rewritten == pc = "done" /\ result = "ok" /\ ~dryrun /\ havePdb /\ pdbInfo # NULL

\* C2: signature correspondence.  After a successful run that is not a dry
\* run, on an image with one CodeView entry and its PDB, the Signature of
\* the image's CV_INFO_PDB70 equals the sig70 of the rewritten PDB, both
\* equal the digest of the image cells outside all patch ranges taken in
\* increasing offset order, and the Age of the image and the age of the
\* PDB are both 1.
C2_SignatureCorrespondence ==
    Rewritten =>
        Let(PdbStream70Of(pdbFile), LAMBDA hdr :
            /\ CvField(image, "Signature")
                 = Peek(hdr, offsetof(PdbStream70, "sig70"), SigLen)
            /\ CvField(image, "Signature")
                 = md5_finish(md5_update(0, OutsidePatches(start.image, patches)))
            /\ CvField(image, "Age") = <<1>>
            /\ Get(hdr, 0, PdbStream70, "age") = 1)

\* Such a run, which changed the signature and the age of the image.
C2_Witness ==
    /\ Rewritten
    /\ CvField(start.image, "Signature") # CvField(image, "Signature")
    /\ CvField(start.image, "Age") # <<1>>
    /\ pdbFile # start.pdbFile

\* The lines printed that start with the given word.
Lines(word) == {i \in 1..Len(out) : out[i][1] = word}

\* A second run, on the files the first run left, has ended, and not for a
\* failure of the file system or of the ILK patch.
SecondRunEnded == run = 2 /\ pc = "done" /\ result \notin {"system_error", "fault"}

\* C5: idempotence.  A run on the output of a run returns successfully,
\* computes the signature the image holds already, prints no 'Patching'
\* line, and leaves the image and the PDB as the first run left them.
C5_Idempotence ==
    SecondRunEnded =>
        /\ result = "ok"
        /\ pdbInfo # NULL => pe.pdbSignature = CvField(start.image, "Signature")
        /\ Lines("Patching") = {}
        /\ image = start.image
        /\ pdbFile = start.pdbFile

\* C5 where the code keeps it: a second run without a PDB.
C5_Idempotence_image ==
    (SecondRunEnded /\ ~havePdb) =>
        /\ result = "ok"
        /\ pdbInfo # NULL => pe.pdbSignature = CvField(start.image, "Signature")
        /\ Lines("Patching") = {}
        /\ image = start.image

\* A successful run with a PDB that is not a dry run has returned.
Succeeded == pc = "done" /\ result = "ok" /\ ~dryrun /\ havePdb

\* C7: run ordering.  In every successful run with a PDB that is not a dry
\* run the steps are: PE parse and patch collection, patch sort, digest,
\* PDB rewrite into the temporary file (open, patch, write), ILK patch,
\* application of the image patches, and then the rename of the temporary
\* PDB over the original.
C7_RunOrdering ==
    Succeeded =>
        steps = <<"parse", "sort", "digest", "pdb open", "pdb patch", "pdb write",
                  "ilk", "apply", "pdb rename">>

\* The order the code keeps: the rename is the last step of the PDB
\* rewrite, before the ILK patch and the application of the patches.
C7_OrderOfTheCode ==
    Succeeded =>
        steps = <<"parse", "sort", "digest", "pdb open", "pdb patch", "pdb write",
                  "pdb rename", "ilk", "apply">>

\* What the early rename allows: the PDB replaced, the image not patched.
C7_RenamedButNotPatched ==
    /\ pc = "done" /\ result = "fault"
    /\ pdbFile # start.pdbFile
    /\ image = start.image

\* C8: a dry run modifies no file.  When a dry run has returned, the image,
\* the PDB file and the .ilk file are as they were at entry, the temporary
\* PDB does not exist, and only 'Patching' and 'Replacing' lines were
\* printed.
C8_DryRunModifiesNoFile ==
    (pc = "done" /\ result = "ok" /\ dryrun) =>
        /\ image = start.image
        /\ pdbFile = start.pdbFile
        /\ ilkFile = start.ilkFile
        /\ tmpFile = NoFile
        /\ \A i \in 1..Len(out) : out[i][1] \in {"Patching", "Replacing old PDB signature in ILK file."}

\* C8 without the .ilk file, which the code keeps.
C8_DryRunModifiesImageAndPdbNot ==
    (pc = "done" /\ result = "ok" /\ dryrun) =>
        /\ image = start.image
        /\ pdbFile = start.pdbFile
        /\ tmpFile = NoFile

\* C9: the source PDB is never written in place.  When the run has ended
\* with InvalidMsf, InvalidPdb or a system error, the PDB file is as it was
\* at entry; and the PDB file changes only by the rename of the temporary
\* file, taken only when the run is not a dry run and the write of the
\* temporary file has completed.
C9_NeverWrittenInPlace ==
    /\ [](result \in {"InvalidMsf", "InvalidPdb", "system_error"}
            => pdbFile = start.pdbFile)
    /\ [][pdbFile' # pdbFile =>
            /\ pc = "pdb close" /\ ~dryrun
            /\ steps[Len(steps)] = "pdb write"
            /\ pdbFile' = tmpFile /\ tmpFile' = NoFile
            /\ steps' = Append(steps, "pdb rename")]_vars

\* A PDB rewrite that failed after the temporary file was created.
C9_Witness ==
    /\ result \in {"InvalidPdb", "system_error"}
    /\ Len(steps) > 4
    /\ tmpFile # NoFile
    /\ pdbFile = start.pdbFile /\ pdbFile # NoFile

-----------------------------------------------------------------------------
(* The ILK patch alone *)

\* The .ilk files: every sequence of up to SigLen + 2 cells that are 0 or
\* cells of the old signature.
IlkFiles ==
    UNION {[1..n -> {0} \cup {Sig(1)[i] : i \in 1..SigLen}] : n \in 0..(SigLen + 2)}

InitIlk ==
    /\ ilkFile \in IlkFiles
    /\ pe = [oldSignature |-> Sig(1), pdbSignature |-> Sig(2)]
    /\ dryrun \in BOOLEAN
    /\ pc = "ilk"
    /\ image = <<>> /\ pdbFile = NoFile /\ tmpFile = NoFile /\ havePdb = FALSE
    /\ wild = 0 /\ patches = <<>> /\ pdbInfo = NULL /\ msf = <<>> /\ out = <<>>
    /\ result = "" /\ steps = <<>> /\ run = 1
    /\ start = [ilkFile |-> ilkFile]

\* The end of an ILK patch with the result r; steps records the number of
\* cells written behind the end of the mapped file.
IlkPatched(r) ==
    /\ ilkFile' = r.ilk
    /\ out' = r.out
    /\ steps' = <<r.past>>
    /\ result' = r.status
    /\ pc' = "done"
    /\ UNCHANGED <<image, pdbFile, tmpFile, havePdb, dryrun, wild, pe, patches,
                   pdbInfo, msf, run, start>>

\* patchIlk of patch_image.cpp
RunPatchIlk ==
    /\ pc = "ilk"
    /\ \E overrun \in Overruns :
          IlkPatched(patchIlk(ilkFile, pe.oldSignature, pe.pdbSignature, dryrun, overrun))

\* patchIlkImpl of ducible/patch_ilk.cpp
RunPatchIlkImpl ==
    /\ pc = "ilk"
    /\ \E overrun \in Overruns :
          IlkPatched(patchIlkImpl(ilkFile, pe.oldSignature, pe.pdbSignature, dryrun, overrun))

NextIlk == RunPatchIlk \/ RunPatchIlkImpl

SpecIlk == InitIlk /\ [][NextIlk]_vars

\* The offsets at which s occurs in d as a contiguous sequence.
Occurrences(d, s) ==
    {i \in 0..(Len(d) - Len(s)) : \A k \in 1..Len(s) : d[i + k] = s[k]}

\* C10: the ILK patch matches the whole GUID.  The .ilk contents change
\* only if they contain the old signature as a contiguous sequence, and
\* then exactly the cells of its first occurrence are overwritten with the
\* new signature; without an occurrence the file is unchanged; and nothing
\* is written outside the mapped file.
C10_IlkWholeGuid ==
    pc = "done" =>
        LET occ == Occurrences(start.ilkFile, pe.oldSignature)
        IN  /\ result = "ok" /\ steps = <<0>>
            /\ occ = {} => ilkFile = start.ilkFile
            /\ ilkFile # start.ilkFile =>
                  /\ occ # {}
                  /\ ilkFile = Poke(start.ilkFile,
                                    CHOOSE i \in occ : \A j \in occ : i <= j,
                                    pe.pdbSignature)

\* A file without the old signature that the patch has changed.
C10_ChangedWithoutOccurrence ==
    /\ pc = "done" /\ result = "ok" /\ steps = <<0>>
    /\ Occurrences(start.ilkFile, pe.oldSignature) = {}
    /\ ilkFile # start.ilkFile

\* A patch that wrote behind the end of the mapped file.
C10_WrittenPastTheEnd ==
    pc = "done" /\ result = "ok" /\ steps # <<0>>

-----------------------------------------------------------------------------
(* MsfFile alone: open a file, replace streams, write, parse what was      *)
(* written                                                                 *)

\* n cells of data that tell their stream b and their position.
Data(n, b) == [k \in 1..n |-> 1000 * b + k]

\* The page sizes of the files read.
SourcePageSizes == {kPageSize \div 2, kPageSize, 2 * kPageSize}

\* The streams of the files read: empty streams, streams shorter than a
\* page, of one page, and longer than a page of the writer.
StreamSets ==
    {<<Data(5, 1)>>,
     <<Data(5, 1), Data(3, 2)>>,
     <<<<>>, Data(kPageSize, 2)>>,
     <<Data(kPageSize + 3, 1), Data(2, 2)>>,
     <<Data(2, 1), Data(2 * kPageSize, 2), Data(1, 3)>>}

\* The streams put in place of a stream s by replaceStream.
Replacements(f, s) ==
    {NullStream, MsfMemoryStream_copy(f, s), MsfMemoryStream(Data(3, 7)),
     MsfMemoryStream(Data(kPageSize + 1, 8))}

InitMsf ==
    /\ pdbFile \in {MkMsf(ps, ss, 204) : ps \in SourcePageSizes, ss \in StreamSets}
    /\ pc = "msf open"
    /\ image = <<>> /\ ilkFile = NoFile /\ tmpFile = NoFile /\ havePdb = TRUE
    /\ dryrun = FALSE /\ wild \in Wild /\ pe = <<>> /\ patches = <<>>
    /\ pdbInfo = NULL /\ msf = <<>> /\ out = <<>>
    /\ result = "" /\ steps = <<>> /\ run = 1
    /\ start = <<>>

\* MsfFile msf(pdb)
MsfOpen ==
    /\ pc = "msf open"
    /\ Let(MsfFile_ctor(pdbFile), LAMBDA r :
           IF r.status = "ok"
             THEN msf' = r.streams /\ pc' = "msf edit" /\ UNCHANGED result
           ELSE Throw(r.status) /\ UNCHANGED msf)
    /\ UNCHANGED <<image, pdbFile, tmpFile, ilkFile, havePdb, dryrun, wild, pe,
                   patches, pdbInfo, out, steps, run, start>>

\* msf.replaceStream(index, stream)
MsfReplace ==
    /\ pc = "msf edit"
    /\ \E i \in 1..Len(msf) : \E s \in Replacements(pdbFile, msf[i]) :
          msf' = replaceStream(msf, i - 1, s)
    /\ pc' = "msf write"
    /\ UNCHANGED <<image, pdbFile, tmpFile, ilkFile, havePdb, dryrun, wild, pe,
                   patches, pdbInfo, out, result, steps, run, start>>

\* msf.write(tmpPdb)
MsfWrite ==
    /\ pc \in {"msf edit", "msf write"}
    /\ Let(MsfFile_write(pdbFile, msf), LAMBDA r :
           /\ tmpFile' = r.f
           /\ IF r.status = "ok" THEN pc' = "msf parse" /\ UNCHANGED result
              ELSE Throw(r.status))
    /\ UNCHANGED <<image, pdbFile, ilkFile, havePdb, dryrun, wild, pe, patches,
                   pdbInfo, msf, out, steps, run, start>>

\* The written file takes the place of the file read, and is parsed:
\* MsfFile msf(pdb).  start keeps the file and the streams held at the time
\* of the write.
MsfParse ==
    /\ pc = "msf parse"
    /\ start' = [pdbFile |-> pdbFile, msf |-> msf]
    /\ pdbFile' = tmpFile
    /\ tmpFile' = NoFile
    /\ Let(MsfFile_ctor(tmpFile), LAMBDA r :
           IF r.status = "ok"
             THEN msf' = r.streams /\ result' = "ok" /\ pc' = "done"
           ELSE Throw(r.status) /\ msf' = <<>>)
    /\ UNCHANGED <<image, ilkFile, havePdb, dryrun, wild, pe, patches, pdbInfo,
                   out, steps, run>>

NextMsf == MsfOpen \/ MsfReplace \/ MsfWrite \/ MsfParse

SpecMsf == InitMsf /\ [][NextMsf]_vars

\* The bytes of the stream s, f the file behind a file-backed stream: the
\* first length cells of its pages.
StreamBytes(f, s) ==
    CASE s.kind = "null" -> <<>>
      [] s.kind = "file" ->
           [k \in 1..s.length |->
               LET at == s.pages[(k - 1) \div s.pageSize + 1] * s.pageSize
                           + ((k - 1) % s.pageSize)
               IN  IF at < Len(f) THEN f[at + 1] ELSE -1]
      [] OTHER -> s.data

\* C6: MSF round trip.  Writing an MsfFile whose streams are null, memory-
\* backed or file-backed and parsing the written file succeeds and yields
\* the same number of streams, each with the length and the bytes of the
\* stream held at that index when the file was written (a null stream reads
\* back as an empty stream).
C6_MsfRoundTrip ==
    (pc = "done" /\ "msf" \in DOMAIN start) =>
        /\ result = "ok"
        /\ Len(msf) = Len(start.msf)
        /\ \A i \in 1..Len(msf) :
              /\ StreamLength(msf[i]) = StreamLength(start.msf[i])
              /\ StreamBytes(pdbFile, msf[i]) = StreamBytes(start.pdbFile, start.msf[i])

\* C6 where the code keeps it: no stream written is longer than a page of
\* the writer, and the pages of the file read are no larger than the
\* writer's.
C6_MsfRoundTrip_short ==
    (/\ pc = "done" /\ "msf" \in DOMAIN start
     /\ start.pdbFile[offsetof(MSF_HEADER, "pageSize") + 1] <= kPageSize
     /\ \A i \in 1..Len(start.msf) : StreamLength(start.msf[i]) <= kPageSize) =>
        /\ result = "ok"
        /\ Len(msf) = Len(start.msf)
        /\ \A i \in 1..Len(msf) :
              /\ StreamLength(msf[i]) = StreamLength(start.msf[i])
              /\ StreamBytes(pdbFile, msf[i]) = StreamBytes(start.pdbFile, start.msf[i])

\* A memory-backed stream longer than a page whose second page came back as
\* a copy of its first.
C6_SecondPageRepeatsFirst ==
    /\ pc = "done" /\ "msf" \in DOMAIN start
    /\ \E i \in 1..Len(msf) :
          /\ i <= Len(start.msf)
          /\ start.msf[i].kind = "mem"
          /\ StreamLength(msf[i]) > kPageSize
          /\ StreamBytes(pdbFile, msf[i])[kPageSize + 1] = start.msf[i].data[1]
          /\ start.msf[i].data[kPageSize + 1] # start.msf[i].data[1]

-----------------------------------------------------------------------------
(* Two links of the same program: the tool is run on one image, then on    *)
(* the other                                                               *)

\* What differs from link to link in an image: the timestamps, the
\* checksum, the PDB signature and age.
Links ==
    [ts : {70, timestamp}, csum : {9, 90}, dir : {5, 50}, dbg : {3, 30},
     sig : {Sig(1), Sig(4)}, age : {1, 3}]

\* The image p as the link v leaves it.  A debug directory without a
\* timestamp has none in any link, and the cells behind the debug
\* directories are a CV_INFO_PDB70 only when a CodeView entry points there.
Linked(p, v) ==
    LET codeView == \E i \in DOMAIN p.dbg : p.dbg[i].type = IMAGE_DEBUG_TYPE_CODEVIEW
    IN  [p EXCEPT !.ts = v.ts, !.csum = v.csum,
                  !.exp = IF @ = -1 THEN -1 ELSE v.dir,
                  !.res = IF @ = -1 THEN -1 ELSE v.dir + 1,
                  !.dbg = [i \in DOMAIN @ |->
                              [@[i] EXCEPT !.ts = IF @ = 0 THEN 0 ELSE v.dbg + i]],
                  !.sig = IF codeView THEN v.sig ELSE @,
                  !.age = IF codeView THEN v.age ELSE @]

InitPair ==
    /\ \E p \in {ImageA, ImageB, ImageNoDebug} : \E v \in Links :
          /\ image = MkImage(p)
          /\ start = [image |-> MkImage(p), twin |-> MkImage(Linked(p, v))]
    /\ pdbFile = NoFile /\ tmpFile = NoFile /\ ilkFile = NoFile
    /\ havePdb = FALSE /\ dryrun = FALSE /\ wild \in Wild
    /\ run = 1
    /\ Fresh

\* The run on the first image has returned: the tool is run on the twin.
\* start keeps what the first run computed and left.
RunTwin ==
    /\ pc = "done" /\ result = "ok" /\ run = 1
    /\ run' = 2
    /\ start' = [start EXCEPT !.image = start.twin] @@
                   [patched |-> image, pdbSignature |-> pe.pdbSignature]
    /\ image' = start.twin
    /\ pc' = "parse" /\ pe' = <<>> /\ patches' = <<>> /\ pdbInfo' = NULL
    /\ msf' = <<>> /\ out' = <<>> /\ result' = "" /\ steps' = <<>>
    /\ UNCHANGED <<pdbFile, tmpFile, ilkFile, havePdb, dryrun, wild>>

NextPair ==
    \/ ParsePE
    \/ SortPatches
    \/ CalculateChecksum
    \/ PatchIlk
    \/ ApplyPatches
    \/ RunTwin

SpecPair == InitPair /\ [][NextPair]_vars

\* Both runs have returned.
BothPatched == run = 2 /\ pc = "done" /\ result = "ok"

\* The image is the image the first run left, the signature computed is
\* the one the first run computed, and every field patched with the
\* timestamp, the TimeDateStamp of the file header among them, holds t.
SameImageWithTimestamp(t) ==
    /\ pe.pdbSignature = start.pdbSignature
    /\ image = start.patched
    /\ image[sizeof(IMAGE_DOS_HEADER) + 1
               + offsetof(IMAGE_FILE_HEADER, "TimeDateStamp") + 1] = t
    /\ \A i \in 1..Len(patches) :
          patches[i].data = "timestamp" => image[patches[i].offset + 1] = t

-----------------------------------------------------------------------------
(* Two links of the same program and their PDBs: the PDB of one link is    *)
(* patched, then the PDB of the other                                      *)

\* A PDB with a file name that holds two GUIDs.
PdbTwoGuids ==
    [PdbB EXCEPT !.guids = <<<<97, 98, 99, 100, 101, 102, 48, 49>>,
                             <<49, 50, 51, 52, 53, 54, 55, 56>>>>]

\* What differs from link to link in a PDB.
PdbDifferences ==
    {"timestamp", "age and GUID", "padding", "tail padding", "names order",
     "file name GUIDs", "LinkInfo"}

\* The PDB q as another link leaves it, different in what.
PdbLinked(q, what) ==
    [q EXCEPT !.ts    = IF "timestamp" \in what THEN 8 ELSE @,
              !.sig   = IF "age and GUID" \in what THEN Sig(5) ELSE @,
              !.age   = IF "age and GUID" \in what THEN 9 ELSE @,
              !.pad   = IF "padding" \in what THEN 55 ELSE @,
              !.sym   = IF "tail padding" \in what
                          THEN [i \in DOMAIN q.sym |->
                                   [name |-> q.sym[i].name,
                                    pad  |-> [k \in DOMAIN q.sym[i].pad |-> 200 + k]]]
                        ELSE @,
              !.rev   = IF "names order" \in what THEN ~@ ELSE @,
              !.guids = IF "file name GUIDs" \in what
                          THEN [i \in DOMAIN q.guids |->
                                   [k \in DOMAIN q.guids[i] |-> 48 + ((k + i) % 10)]]
                        ELSE @,
              !.trail = IF "LinkInfo" \in what THEN <<6>> ELSE @]

\* The image and the PDB file of the link that wrote the PDB q.
LinkOutput(q) ==
    [image   |-> MkImage([ImageA EXCEPT !.sig = q.sig, !.age = q.age]),
     pdbFile |-> PdbFile(q, kPageSize)]

InitPdb ==
    /\ \E q \in {PdbA, PdbB, PdbTwoGuids} :
       \E what \in {{}, PdbDifferences} \cup {{d} : d \in PdbDifferences} :
          /\ image = LinkOutput(q).image
          /\ pdbFile = LinkOutput(q).pdbFile
          /\ start = [image |-> LinkOutput(q).image, pdbFile |-> LinkOutput(q).pdbFile,
                      ilkFile |-> NoFile, twin |-> LinkOutput(PdbLinked(q, what)),
                      what |-> what]
    /\ tmpFile = NoFile /\ ilkFile = NoFile
    /\ havePdb = TRUE /\ dryrun = FALSE /\ wild \in Wild
    /\ run = 1
    /\ Fresh

\* The bytes of the streams the MsfFile holds.
HeldStreams == [i \in 1..Len(msf) |-> StreamBytes(pdbFile, msf[i])]

\* patchPDB(msf, ...) has returned for the first PDB: the tool is run on
\* the image and the PDB of the other link.  start keeps the signature and
\* the streams of the first.
RunTwinPdb ==
    /\ pc = "pdb write" /\ run = 1
    /\ run' = 2
    /\ start' = [start EXCEPT !.image = start.twin.image,
                              !.pdbFile = start.twin.pdbFile] @@
                   [streams |-> HeldStreams, pdbSignature |-> pe.pdbSignature]
    /\ image' = start.twin.image
    /\ pdbFile' = start.twin.pdbFile
    /\ tmpFile' = NoFile
    /\ pc' = "parse" /\ pe' = <<>> /\ patches' = <<>> /\ pdbInfo' = NULL
    /\ msf' = <<>> /\ out' = <<>> /\ result' = "" /\ steps' = <<>>
    /\ UNCHANGED <<ilkFile, havePdb, dryrun, wild>>

NextPdb ==
    \/ ParsePE
    \/ SortPatches
    \/ CalculateChecksum
    \/ OpenPdb
    \/ PatchPdbStreams
    \/ RunTwinPdb

SpecPdb == InitPdb /\ [][NextPdb]_vars

\* patchPDB(msf, ...) has returned for both PDBs, given the same signature.
BothRewritten ==
    run = 2 /\ pc = "pdb write" /\ pe.pdbSignature = start.pdbSignature

\* C4: PDB determinism.  For two PDBs that differ only in the timestamp,
\* age and GUID of the PDB info stream, the padding and offsets of the
\* module infos, the padding of the section contributions, padding1 and
\* sectionCount of the public symbol header, the tail padding of the symbol
\* records, the order of the /names offsets, the GUIDs in file names and
\* the /LinkInfo bytes behind LinkInfo.size, the streams the MsfFile holds
\* after patchPDB are the same, stream by stream.
C4_PdbDeterminism ==
    BothRewritten => HeldStreams = start.streams

\* C4 where the code keeps it: the PDBs differ in something other than the
\* tail padding of symbol records and the GUIDs of file names.
C4_PdbDeterminism_others ==
    (BothRewritten /\ start.what \cap {"tail padding", "file name GUIDs"} = {}) =>
        HeldStreams = start.streams

\* Two PDBs that differ only in the tail padding of their symbol records,
\* and differ after patchPDB.
C4_TailPaddingKept ==
    /\ BothRewritten /\ start.what = {"tail padding"}
    /\ HeldStreams # start.streams

\* Two PDBs that differ only in the GUIDs of a file name, and differ after
\* patchPDB.
C4_SecondGuidKept ==
    /\ BothRewritten /\ start.what = {"file name GUIDs"}
    /\ HeldStreams # start.streams

-----------------------------------------------------------------------------
(* The image parser on images that no linker wrote *)

\* The addresses PEFile::_init reads.
PEFile_init_reads(img) ==
    LET end    == buf + Len(img)
        eMagic == buf + offsetof(IMAGE_DOS_HEADER, "e_magic")
        eLfa   == buf + offsetof(IMAGE_DOS_HEADER, "e_lfanew")
        p1     == buf + Field(img, buf, IMAGE_DOS_HEADER, "e_lfanew")
        p2     == p1 + 1
    IN  IF buf + sizeof(IMAGE_DOS_HEADER) >= end THEN {}
        ELSE IF Field(img, buf, IMAGE_DOS_HEADER, "e_magic") # IMAGE_DOS_SIGNATURE
          THEN {eMagic}
        ELSE IF p1 + 1 >= end THEN {eMagic, eLfa}
        ELSE IF Deref(img, p1) # IMAGE_NT_SIGNATURE THEN {eMagic, eLfa, p1}
        ELSE IF p2 + sizeof(IMAGE_FILE_HEADER) >= end THEN {eMagic, eLfa, p1}
        ELSE {eMagic, eLfa, p1,
              p2 + offsetof(IMAGE_FILE_HEADER, "SizeOfOptionalHeader")}

\* The addresses the loop of PEFile::translate reads.
RECURSIVE FindSection_reads(_, _, _, _, _)
FindSection_reads(img, s, i, n, rva) ==
    LET va == s + offsetof(IMAGE_SECTION_HEADER, "VirtualAddress")
        vs == s + offsetof(IMAGE_SECTION_HEADER, "VirtualSize")
    IN  IF i >= n THEN {}
        ELSE IF rva < Deref(img, va)
          THEN {va} \cup FindSection_reads(img, s + sizeof(IMAGE_SECTION_HEADER),
                                           i + 1, n, rva)
        ELSE IF rva < Deref(img, va) + Deref(img, vs) THEN {va, vs}
        ELSE {va, vs} \cup FindSection_reads(img, s + sizeof(IMAGE_SECTION_HEADER),
                                             i + 1, n, rva)

\* The addresses PEFile::translate reads.
translate_reads(img, f, rva) ==
    LET n == Field(img, f.fileHeader, IMAGE_FILE_HEADER, "NumberOfSections")
        s == FindSection(img, f.sectionHeaders, 0, n, rva)
    IN  {f.fileHeader + offsetof(IMAGE_FILE_HEADER, "NumberOfSections")}
        \cup FindSection_reads(img, f.sectionHeaders, 0, n, rva)
        \cup {s + offsetof(IMAGE_SECTION_HEADER, "VirtualAddress"),
              s + offsetof(IMAGE_SECTION_HEADER, "PointerToRawData")}

\* The addresses PEFile::getDataDir<T> reads.
getDataDir_reads(img, f, Opt, T, entry) ==
    LET va   == Field(img, f.optional, Opt, entry \o ".VirtualAddress")
        size == Field(img, f.optional, Opt, entry \o ".Size")
    IN  {f.optional + offsetof(Opt, entry \o ".VirtualAddress")}
        \cup (IF va = 0 THEN {}
              ELSE {f.optional + offsetof(Opt, entry \o ".Size")}
                   \cup (IF size < sizeof(T) THEN {}
                         ELSE translate_reads(img, f, va)))

\* The addresses PEFile::getDebugDataDirs reads.
getDebugDataDirs_reads(img, f, Opt) ==
    LET va == Field(img, f.optional, Opt, "Debug.VirtualAddress")
    IN  {f.optional + offsetof(Opt, "Debug.VirtualAddress")}
        \cup (IF va = 0 THEN {}
              ELSE translate_reads(img, f, va)
                   \cup {f.optional + offsetof(Opt, "Debug.Size")})

\* The addresses the loop over the debug entries reads, in PEFile::pdbInfo
\* and (timestamps = TRUE) in patchDebugDataDirectories.
RECURSIVE DebugDirLoop_reads(_, _, _, _, _, _)
DebugDirLoop_reads(img, dir, i, count, cvInfo, timestamps) ==
    LET here == {dir + offsetof(IMAGE_DEBUG_DIRECTORY, "Type")}
                \cup (IF timestamps
                        THEN {dir + offsetof(IMAGE_DEBUG_DIRECTORY, "TimeDateStamp")}
                      ELSE {})
        ptr  == dir + offsetof(IMAGE_DEBUG_DIRECTORY, "PointerToRawData")
        cv   == buf + Field(img, dir, IMAGE_DEBUG_DIRECTORY, "PointerToRawData")
        next == dir + sizeof(IMAGE_DEBUG_DIRECTORY)
    IN  IF i >= count THEN {}
        ELSE IF Field(img, dir, IMAGE_DEBUG_DIRECTORY, "Type") = IMAGE_DEBUG_TYPE_CODEVIEW
          THEN IF cvInfo # NULL THEN here
               ELSE IF ~isValidRef(img, cv, sizeof(CV_INFO_PDB70))
                 THEN here \cup {ptr}
               ELSE here \cup {ptr}
                    \cup DebugDirLoop_reads(img, next, i + 1, count, cv, timestamps)
        ELSE here \cup DebugDirLoop_reads(img, next, i + 1, count, cvInfo, timestamps)

\* The addresses PEFile::pdbInfo (timestamps = FALSE) and
\* patchDebugDataDirectories (timestamps = TRUE) read, when the count the
\* latter leaves unset happens to be 0.
DebugData_reads(img, f, Opt, timestamps) ==
    LET d == getDebugDataDirs(img, f, Opt, 0)
        r == DebugDirLoop(img, d.dir, 0, d.count, NULL, <<>>)
    IN  getDebugDataDirs_reads(img, f, Opt)
        \cup (IF ~d.ok \/ d.dir = NULL THEN {}
              ELSE DebugDirLoop_reads(img, d.dir, 0, d.count, NULL, timestamps)
                   \cup (IF timestamps /\ r.status = "ok" /\ r.cvInfo # NULL
                           THEN {r.cvInfo + offsetof(CV_INFO_PDB70, "CvSignature")}
                         ELSE {}))

\* The addresses patchOptionalHeader<T> reads.
patchOptionalHeader_reads(img, f, Opt) ==
    LET e == getDataDir(img, f, Opt, IMAGE_EXPORT_DIRECTORY, "Export")
        r == getDataDir(img, f, Opt, IMAGE_RESOURCE_DIRECTORY, "Resource")
    IN  getDataDir_reads(img, f, Opt, IMAGE_EXPORT_DIRECTORY, "Export")
        \cup (IF ~e.ok THEN {}
              ELSE getDataDir_reads(img, f, Opt, IMAGE_RESOURCE_DIRECTORY, "Resource")
                   \cup (IF ~r.ok THEN {}
                         ELSE DebugData_reads(img, f, Opt, TRUE)))

\* The addresses one case of the switch of patchImageImpl reads.
PatchAs_reads(img, f, Opt) ==
    IF ~optionalHeaderOk(img, f, Opt) THEN {}
    ELSE DebugData_reads(img, f, Opt, FALSE)
         \cup (IF PEFile_pdbInfo(img, f, Opt).status # "ok" THEN {}
               ELSE patchOptionalHeader_reads(img, f, Opt))

\* The addresses patchImageImpl reads from the PEFile constructor to the end
\* of the switch.
CollectPatches_reads(img) ==
    LET f == PEFile(img)
        m == f.optional + offsetof(IMAGE_OPTIONAL_HEADER32, "Magic")
    IN  PEFile_init_reads(img)
        \cup (IF f.status # "ok" THEN {}
              ELSE {m} \cup
                   (IF magic(img, f) = IMAGE_NT_OPTIONAL_HDR32_MAGIC
                      THEN PatchAs_reads(img, f, IMAGE_OPTIONAL_HEADER32)
                    ELSE IF magic(img, f) = IMAGE_NT_OPTIONAL_HDR64_MAGIC
                      THEN PatchAs_reads(img, f, IMAGE_OPTIONAL_HEADER64)
                    ELSE {}))

\* img with the field f of the struct T at file offset off set to v.
WithField(img, off, T, f, v) == Poke(img, off + offsetof(T, f), <<v>>)

\* Where the linker of MkImage puts the file header, the optional header,
\* and (behind a PE32 optional header) the section header and the section.
FileHeaderAt == sizeof(IMAGE_DOS_HEADER) + 1

OptionalAt == FileHeaderAt + sizeof(IMAGE_FILE_HEADER)

SectionAt == OptionalAt + sizeof(IMAGE_OPTIONAL_HEADER32)

DataAt == SectionAt + sizeof(IMAGE_SECTION_HEADER)

\* ImageA with a resource directory as well.
ImageExpRes == [ImageA EXCEPT !.res = 6]

\* The export directory entry points at the debug directory.
ExportAliasesDebug ==
    LET img == MkImage(ImageA)
    IN  WithField(img, OptionalAt, IMAGE_OPTIONAL_HEADER32, "Export.VirtualAddress",
            img[OptionalAt + offsetof(IMAGE_OPTIONAL_HEADER32, "Debug.VirtualAddress") + 1])

\* The resource directory entry points at the export directory.
ResourceAliasesExport ==
    LET img == MkImage(ImageExpRes)
    IN  WithField(img, OptionalAt, IMAGE_OPTIONAL_HEADER32, "Resource.VirtualAddress",
            img[OptionalAt + offsetof(IMAGE_OPTIONAL_HEADER32, "Export.VirtualAddress") + 1])

\* Where MkImage(ImageA) has its debug directory: behind the export
\* directory.
DebugAt == DataAt + sizeof(IMAGE_EXPORT_DIRECTORY)

\* The CodeView entry (the second debug entry) points at the debug
\* directory, whose first cell holds "RSDS".
CodeViewAliasesDebug ==
    WithField(
        WithField(MkImage(ImageA), DebugAt, IMAGE_DEBUG_DIRECTORY,
                  "Characteristics", CV_INFO_SIGNATURE_PDB70),
        DebugAt + sizeof(IMAGE_DEBUG_DIRECTORY), IMAGE_DEBUG_DIRECTORY,
        "PointerToRawData", DebugAt)

\* The export RVA is in no section.
NoSectionHoldsRva ==
    WithField(MkImage(ImageA), OptionalAt, IMAGE_OPTIONAL_HEADER32,
              "Export.VirtualAddress", 9)

\* SizeOfOptionalHeader puts the section table behind the end of the image.
SectionTablePastEnd ==
    WithField(MkImage(ImageA), FileHeaderAt, IMAGE_FILE_HEADER,
              "SizeOfOptionalHeader", Len(MkImage(ImageA)))

\* The CodeView record and the export directory reach past the end.
CodeViewPastEnd ==
    WithField(MkImage(ImageA), DebugAt + sizeof(IMAGE_DEBUG_DIRECTORY),
              IMAGE_DEBUG_DIRECTORY, "PointerToRawData", Len(MkImage(ImageA)) - 1)

ExportPastEnd ==
    LET img == MkImage(ImageA)
    IN  WithField(img, OptionalAt, IMAGE_OPTIONAL_HEADER32, "Export.VirtualAddress",
            img[SectionAt + offsetof(IMAGE_SECTION_HEADER, "VirtualAddress") + 1]
              + Len(img) - DataAt - 1)

\* e_lfanew is negative: the PE signature is looked for in front of the
\* image.  In the second image the words of the DOS header are laid out as
\* the end of a file header and the start of a PE32 optional header with
\* empty data directories.
NegativeLfanew ==
    WithField(MkImage(ImageA), 0, IMAGE_DOS_HEADER, "e_lfanew", -2)

NegativeLfanewHeaders ==
    <<IMAGE_DOS_SIGNATURE, IMAGE_NT_OPTIONAL_HDR32_MAGIC, -3>> \o Repeat(0, 9)

\* Images cut short.
CutShort(n) == SubSeq(MkImage(ImageA), 1, n)

PeImages ==
    {MkImage(ImageA), MkImage(ImageB), MkImage(ImageExpRes), MkImage(ImageNoDebug),
     MkImage(ImageTwoCodeViews),
     ExportAliasesDebug, ResourceAliasesExport, CodeViewAliasesDebug,
     NoSectionHoldsRva, SectionTablePastEnd, CodeViewPastEnd, ExportPastEnd,
     NegativeLfanew, NegativeLfanewHeaders,
     CutShort(1), CutShort(FileHeaderAt), CutShort(OptionalAt + 1),
     CutShort(SectionAt)}

\* What a read in front of or behind the mapped image may yield.
WildPe == Wild \cup {IMAGE_NT_SIGNATURE}

InitPe ==
    /\ image \in PeImages
    /\ havePdb = FALSE
    /\ pdbFile = NoFile
    /\ ilkFile = NoFile
    /\ tmpFile = NoFile
    /\ dryrun \in BOOLEAN
    /\ wild \in WildPe
    /\ run = 1
    /\ Fresh
    /\ start = Files

NextPe ==
    \/ ParsePE
    \/ SortPatches
    \/ CalculateChecksum
    \/ PatchIlk
    \/ ApplyPatches

SpecPe == InitPe /\ [][NextPe]_vars

\* The patches a and b cover no cell in common.
Disjoint(a, b) ==
    a.offset + a.length <= b.offset \/ b.offset + b.length <= a.offset

\* patch.offset >= pos at every iteration of the loop of calculateChecksum
\* over the patches ps.
RECURSIVE OffsetNeverBehindPos(_, _)
OffsetNeverBehindPos(ps, pos) ==
    \/ ps = <<>>
    \/ /\ Head(ps).offset >= pos
       /\ OffsetNeverBehindPos(Tail(ps), Head(ps).offset + Head(ps).length)

\* C11: patch non-overlap.  For every image the parser accepts, any two
\* distinct patches of the patch set cover disjoint ranges, and once the
\* patches are sorted patch.offset >= pos holds at every iteration of
\* calculateChecksum.
C11_PatchNonOverlap ==
    /\ \A i, j \in 1..Len(patches) : i # j => Disjoint(patches[i], patches[j])
    /\ "sort" \in {steps[k] : k \in 1..Len(steps)} => OffsetNeverBehindPos(patches, 0)

\* What the code keeps of C11: the patches of an image laid out by the
\* linker are disjoint.
C11_PatchNonOverlap_linked ==
    start.image \in {MkImage(ImageA), MkImage(ImageB), MkImage(ImageExpRes),
                     MkImage(ImageNoDebug)}
      => C11_PatchNonOverlap

\* An image was accepted, two of its patches cover a cell in common, and
\* calculateChecksum ran into the fault.
C11_OverlapAccepted ==
    /\ result = "fault" /\ steps = <<"parse", "sort", "digest">>
    /\ \E i, j \in 1..Len(patches) : i # j /\ ~Disjoint(patches[i], patches[j])

\* C12: every patch is inside the image.  Each patch added to the patch set
\* has 0 <= offset and offset + length <= image length.
C12_PatchesInsideImage ==
    \A i \in 1..Len(patches) :
        /\ 0 <= patches[i].offset
        /\ patches[i].offset + patches[i].length <= Len(image)

\* What the code keeps of C12: the patches are inside the image when
\* e_lfanew is not negative.
C12_PatchesInsideImage_forward ==
    (Len(start.image) >= sizeof(IMAGE_DOS_HEADER)
       /\ start.image[offsetof(IMAGE_DOS_HEADER, "e_lfanew") + 1] < 0)
    \/ C12_PatchesInsideImage

\* An image with a negative e_lfanew was accepted with a patch in front of
\* the image.
C12_PatchOutsideAccepted ==
    /\ steps # <<>> /\ result # "InvalidImage"
    /\ \E i \in 1..Len(patches) :
          patches[i].offset + patches[i].length > Len(image)

\* C13: bounds rule for reads.  Every read the parser performs on the image
\* is of a cell inside the image.
C13_ReadsInsideImage ==
    steps # <<>> =>
        \A a \in CollectPatches_reads(start.image) :
            a >= buf /\ a < buf + Len(start.image)

\* What the code keeps of C13: the reads of the DOS header, and of the
\* headers of an image with e_lfanew >= 0, are inside the image.
C13_HeaderReadsInsideImage ==
    steps # <<>> =>
        \A a \in PEFile_init_reads(start.image) :
            \/ a >= buf /\ a < buf + Len(start.image)
            \/ start.image[offsetof(IMAGE_DOS_HEADER, "e_lfanew") + 1] < 0

\* The parser read a section header behind the end of the image.
C13_SectionReadBehindEnd ==
    /\ steps # <<>>
    /\ start.image = SectionTablePastEnd
    /\ \E a \in CollectPatches_reads(start.image) : a >= buf + Len(start.image)

\* The parser read the PE signature in front of the image.
C13_SignatureReadInFront ==
    /\ steps # <<>>
    /\ \E a \in PEFile_init_reads(start.image) : a < buf

-----------------------------------------------------------------------------
(* Patch::apply alone *)

\* The buffers a patch is applied to, and the signatures it may hold.
PatchBuffers == [1..(SigLen + 2) -> {0, 1}]

PatchSignatures == [1..SigLen -> {0, 1}]

\* One patch of the age or of the signature, anywhere in the buffer.
InitPatch ==
    /\ image \in PatchBuffers
    /\ \E sig \in PatchSignatures :
         pe = [status |-> "ok", pdbSignature |-> sig]
    /\ \E off \in 0..(SigLen + 1) :
         \/ patches = <<Patch(buf + off, 1, "pdbAge", "PDB Age")>>
         \/ /\ off + SigLen <= SigLen + 2
            /\ patches = <<Patch(buf + off, SigLen, "pdbSignature", "PDB Signature")>>
    /\ dryrun \in BOOLEAN
    /\ havePdb = FALSE /\ pdbFile = NoFile /\ tmpFile = NoFile /\ ilkFile = NoFile
    /\ wild = 0 /\ run = 1
    /\ pc = "apply" /\ pdbInfo = NULL /\ msf = <<>> /\ out = <<>>
    /\ result = "" /\ steps = <<>>
    /\ start = Files

NextPatch == ApplyPatches

SpecPatch == InitPatch /\ [][NextPatch]_vars

\* The cells of the buffer the patch is about differed from its data when
\* it was applied.
PatchDiffered ==
    Peek(start.image, patches[1].offset, patches[1].length)
        # PatchData(patches[1], pe)

\* C14: Patch::apply writes and reports iff the bytes differ.  If the target
\* range already equals the data, nothing is printed and nothing is
\* written; otherwise exactly one "Patching" line is printed and, unless
\* dryRun is set, the range afterwards equals the data.  In every case the
\* cells outside the range are unchanged.
C14_ApplyIffDiffers ==
    pc = "done" =>
        LET p == patches[1]
        IN  /\ ~PatchDiffered => out = <<>> /\ image = start.image
            /\ PatchDiffered =>
                 /\ out = <<PatchLine(p)>>
                 /\ dryrun => image = start.image
                 /\ ~dryrun => Peek(image, p.offset, p.length) = PatchData(p, pe)
            /\ Len(image) = Len(start.image)
            /\ \A k \in 1..Len(image) :
                  (k - 1 < p.offset \/ k - 1 >= p.offset + p.length)
                      => image[k] = start.image[k]

\* A patch of the signature was applied, not as a dry run, to a buffer that
\* held another signature.
C14_Witness ==
    /\ pc = "done" /\ ~dryrun /\ PatchDiffered
    /\ patches[1].length = SigLen /\ image # start.image

-----------------------------------------------------------------------------
(* The check of the PDB against the image *)

\* How the PDB info stream of a PDB differs from the one the linker wrote:
\* an older or newer implementation version, cut short by one cell, empty,
\* or cut behind the PdbStream70.
HeaderVariants == {"linked", "older", "newer", "short", "empty", "bare"}

WithHeader(ss, v) ==
    [ss EXCEPT ![PdbStreamType.header + 1] =
        CASE v = "linked" -> @
          [] v = "older"  -> Set(@, 0, PdbStream70, "version", PdbVersion_vc70 - 1)
          [] v = "newer"  -> Set(@, 0, PdbStream70, "version", PdbVersion_vc70 + 1)
          [] v = "short"  -> SubSeq(@, 1, sizeof(PdbStream70) - 1)
          [] v = "empty"  -> <<>>
          [] v = "bare"   -> SubSeq(@, 1, sizeof(PdbStream70))]

\* PDBs of ImageA, of ImageB, and of ImageA but for the age or for the
\* signature.
HeaderPdbs == {PdbA, PdbB, [PdbA EXCEPT !.age = 2], [PdbA EXCEPT !.sig = Sig(2)]}

InitHeader ==
    /\ \E i \in {ImageA, ImageB, ImageNoDebug} : image = MkImage(i)
    /\ \E q \in HeaderPdbs, v \in HeaderVariants :
         pdbFile = MkMsf(kPageSize, WithHeader(MkPdbStreams(q), v), 204)
    /\ havePdb = TRUE
    /\ ilkFile = NoFile
    /\ tmpFile = NoFile
    /\ dryrun \in BOOLEAN
    /\ wild \in Wild
    /\ run = 1
    /\ Fresh
    /\ start = Files

NextHeader ==
    \/ ParsePE
    \/ SortPatches
    \/ CalculateChecksum
    \/ OpenPdb
    \/ PatchPdbStreams
    \/ WritePdb
    \/ ClosePdb
    \/ PatchIlk
    \/ ApplyPatches

SpecHeader == InitHeader /\ [][NextHeader]_vars

\* The whole PDB info stream (stream 1) of the PDB file f.
HeaderStreamOf(f) ==
    Let(MsfFile_ctor(f), LAMBDA m :
        Let(m.streams[PdbStreamType.header + 1], LAMBDA s :
            StreamRead(f, s, 0, StreamLength(s))))

\* The PDB info stream hdr fails one of the checks against the image img,
\* whose CV_INFO_PDB70 is at info.
FailsMatch(hdr, img, info) ==
    \/ Len(hdr) < sizeof(PdbStream70)
    \/ hdr[offsetof(PdbStream70, "version") + 1] < PdbVersion_vc70
    \/ info = NULL
    \/ img[info - buf + offsetof(CV_INFO_PDB70, "Age") + 1]
         # hdr[offsetof(PdbStream70, "age") + 1]
    \/ \E k \in 1..SigLen :
          img[info - buf + offsetof(CV_INFO_PDB70, "Signature") + k]
            # hdr[offsetof(PdbStream70, "sig70") + k]

\* patchPDB(msf, ...) has been called in this run.
HeaderChecked == \E k \in 1..Len(steps) : steps[k] = "pdb patch"

\* C15: PDB/PE match check.  When the PDB info stream is shorter than
\* PdbStream70, its version is below vc70, the image has no CodeView entry,
\* or (Age, Signature) of the image differs from (age, sig70) of the PDB,
\* the rewrite ends with InvalidPdb and the PDB file is never renamed over.
\* When the rewrite goes past the checks, the header it holds, and the
\* header of the PDB it leaves, has timestamp 1262304000, age 1 and the
\* new signature as sig70.
C15_MatchCheck ==
    HeaderChecked =>
        Let(HeaderStreamOf(start.pdbFile), LAMBDA hdr :
            IF FailsMatch(hdr, start.image, pdbInfo)
              THEN /\ result = "InvalidPdb"
                   /\ pdbFile = start.pdbFile
            ELSE /\ pc = "pdb write" =>
                      SubSeq(msf[PdbStreamType.header + 1].data, 1, sizeof(PdbStream70))
                        = <<hdr[1], 1262304000, 1>> \o pe.pdbSignature
                 /\ pdbFile # start.pdbFile =>
                      PdbStream70Of(pdbFile)
                        = <<hdr[1], 1262304000, 1>> \o pe.pdbSignature)

\* A PDB whose signature alone differs from the image's was refused.
C15_Witness ==
    /\ HeaderChecked /\ result = "InvalidPdb" /\ pdbInfo # NULL
    /\ pdbFile = start.pdbFile
    /\ Let(HeaderStreamOf(start.pdbFile), LAMBDA hdr :
           /\ Len(hdr) >= sizeof(PdbStream70)
           /\ hdr[offsetof(PdbStream70, "version") + 1] >= PdbVersion_vc70
           /\ start.image[pdbInfo - buf + offsetof(CV_INFO_PDB70, "Age") + 1]
                = hdr[offsetof(PdbStream70, "age") + 1]
           /\ FailsMatch(hdr, start.image, pdbInfo))

\* A PDB that passes the checks was rewritten and renamed.
C15_Rewritten ==
    /\ HeaderChecked /\ pdbFile # start.pdbFile
    /\ ~FailsMatch(HeaderStreamOf(start.pdbFile), start.image, pdbInfo)

-----------------------------------------------------------------------------
(* patchSymbolRecordsStream alone *)

\* The bytes found in the padding of a symbol record.
PadBytes == {0, 171, 205}

\* The symbol records: a name of n characters, its NUL, and k bytes of
\* padding up to a multiple of 4.
SymbolRecords ==
    {[name |-> SubSeq(<<102, 111, 111, 98>>, 1, n), pad |-> pad] :
        n \in 0..4, pad \in UNION {[1..k -> PadBytes] : k \in 0..3}}

WellFormedRecords == {r \in SymbolRecords : (Len(r.name) + 1 + Len(r.pad)) % 4 = 0}

\* A stream of one record, or of a record behind the record "fo".
InitSym ==
    /\ \E r \in WellFormedRecords, first \in {<<>>, <<[name |-> <<102, 111>>, pad |-> <<7>>]>>} :
         /\ start = [recs |-> first \o <<r>>]
         /\ msf = <<MsfMemoryStream(
                      Flatten([i \in 1..Len(first \o <<r>>) |->
                                  SymRec((first \o <<r>>)[i].name, (first \o <<r>>)[i].pad)]))>>
    /\ pc = "symbol records"
    /\ image = <<>> /\ havePdb = TRUE /\ pdbFile = NoFile /\ tmpFile = NoFile
    /\ ilkFile = NoFile /\ dryrun = FALSE /\ wild = 0 /\ run = 1
    /\ pe = <<>> /\ patches = <<>> /\ pdbInfo = NULL /\ out = <<>>
    /\ result = "" /\ steps = <<>>

\* patchSymbolRecordsStream(symRecStream.get())
RunPatchSymbolRecords ==
    /\ pc = "symbol records"
    /\ Let(patchSymbolRecordsStream(msf[1].data), LAMBDA r :
           IF r.status = "ok"
             THEN msf' = <<MsfMemoryStream(r.data)>> /\ result' = "ok"
           ELSE result' = r.status /\ UNCHANGED msf)
    /\ pc' = "done"
    /\ Step("symbol records")
    /\ UNCHANGED <<image, pdbFile, tmpFile, ilkFile, havePdb, dryrun, wild, pe,
                   patches, pdbInfo, out, run, start>>

NextSym == RunPatchSymbolRecords

SpecSym == InitSym /\ [][NextSym]_vars

\* The records recs with every padding byte zero.
ZeroPadded(recs) ==
    Flatten([i \in 1..Len(recs) |->
                SymRec(recs[i].name, Repeat(0, Len(recs[i].pad)))])

\* C16: symbol-record tail padding is fully zeroed.  For every record whose
\* data ends with a NUL followed by k padding bytes, k in 0..3, after
\* patchSymbolRecordsStream all k padding bytes are zero and every byte up
\* to and including the NUL is unchanged.
C16_TailPaddingZeroed ==
    pc = "done" => result = "ok" /\ msf[1].data = ZeroPadded(start.recs)

\* What the code keeps of C16: records with at most two padding bytes, and
\* records whose first padding byte is zero already, come out zero padded.
C16_TailPaddingZeroed_upTo2 ==
    (pc = "done" /\ \A i \in 1..Len(start.recs) :
                       Len(start.recs[i].pad) < 3 \/ start.recs[i].pad[1] = 0)
        => result = "ok" /\ msf[1].data = ZeroPadded(start.recs)

\* The record "foob\0" with the padding AB AB AB came out with the padding
\* AB AB 00.
C16_ThreeBytesOfPadding ==
    /\ pc = "done" /\ result = "ok"
    /\ start.recs = <<[name |-> <<102, 111, 111, 98>>, pad |-> <<171, 171, 171>>]>>
    /\ msf[1].data = SymRec(<<102, 111, 111, 98>>, <<171, 171, 0>>)

-----------------------------------------------------------------------------
(* normalizeFileNameGuid alone *)

\* GUIDs in text as they occur in file names: lower case, upper case, the
\* null GUID, and a text that is no GUID ("g" is no hexadecimal digit).
GuidTexts ==
    {GuidText(<<97, 98, 99, 100, 101, 102, 48, 49>>),
     GuidText(<<65, 70, 57, 56, 55, 54, 53, 52>>),
     GuidText(Repeat(48, 8)),
     GuidText(<<103, 98, 99, 100, 101, 102, 48, 49>>)}

\* File names with one GUID and with two, at the start, in the middle and
\* at the end of the name.
GuidNames ==
    {pre \o g \o post :
        pre \in {<<>>, <<97>>}, g \in GuidTexts, post \in {<<>>, <<46, 116>>}}
    \cup
    {pre \o g \o mid \o h \o post :
        pre \in {<<>>, <<97>>}, g \in GuidTexts, mid \in {<<>>, <<92>>},
        h \in GuidTexts, post \in {<<>>, <<46, 116>>}}

\* The name in a buffer, behind it its NUL and the next string.
InitGuid ==
    /\ \E name \in GuidNames :
         /\ msf = <<MsfMemoryStream(name \o <<0, 110, 0>>)>>
         /\ start = [data |-> name \o <<0, 110, 0>>, length |-> Len(name)]
    /\ pc = "guid"
    /\ image = <<>> /\ havePdb = TRUE /\ pdbFile = NoFile /\ tmpFile = NoFile
    /\ ilkFile = NoFile /\ dryrun = FALSE /\ wild = 0 /\ run = 1
    /\ pe = <<>> /\ patches = <<>> /\ pdbInfo = NULL /\ out = <<>>
    /\ result = "" /\ steps = <<>>

\* size_t len = strlen(str); normalizeFileNameGuid(str, len), on the string
\* at the start of the buffer: the first time, and once again.
RunNormalize ==
    /\ pc \in {"guid", "guid again"}
    /\ msf' = <<MsfMemoryStream(
                  normalizeFileNameGuid(msf[1].data, 0, strlen(msf[1].data, 0)))>>
    /\ pc' = IF pc = "guid" THEN "guid again" ELSE "done"
    /\ Step(pc)
    /\ UNCHANGED <<image, pdbFile, tmpFile, ilkFile, havePdb, dryrun, wild, pe,
                   patches, pdbInfo, out, result, run, start>>

NextGuid == RunNormalize

SpecGuid == InitGuid /\ [][NextGuid]_vars

\* The offsets of the GUIDs in the name as it was.
GuidsAtStart == GuidMatches(start.data, 0, start.length)

\* The offset of the first of them.
FirstGuid == CHOOSE m \in GuidsAtStart : \A n \in GuidsAtStart : m <= n

\* C17: GUID normalisation is length-preserving.  normalizeFileNameGuid
\* changes at most the characters of the matched "{...}" substring: the
\* length of the string (the position of its NUL) is unchanged, and every
\* byte outside the match, the byte behind the closing brace included,
\* keeps its value.
C17_LengthPreserving ==
    pc = "guid again" =>
        /\ Len(msf[1].data) = Len(start.data)
        /\ strlen(msf[1].data, 0) = start.length
        /\ \A k \in 1..Len(start.data) :
              (GuidsAtStart = {}
                 \/ k - 1 < FirstGuid \/ k - 1 >= FirstGuid + Len(guidRegex))
                  => msf[1].data[k] = start.data[k]

\* What the code keeps of C17: a name whose first GUID is at its end keeps
\* its length and its other bytes, and no byte in front of the match or
\* behind the byte that follows it is changed.
C17_LengthPreserving_atEnd ==
    pc = "guid again" =>
        /\ Len(msf[1].data) = Len(start.data)
        /\ \A k \in 1..Len(start.data) :
              (GuidsAtStart = {}
                 \/ k - 1 < FirstGuid \/ k - 1 > FirstGuid + Len(guidRegex))
                  => msf[1].data[k] = start.data[k]
        /\ (GuidsAtStart # {} /\ FirstGuid + Len(guidRegex) = start.length)
              => strlen(msf[1].data, 0) = start.length

\* The name "{abcdef01}.t" (the GUID in the model's short form) was cut off
\* behind the GUID.
C17_NameCutOff ==
    /\ pc = "guid again"
    /\ start.data = GuidText(<<97, 98, 99, 100, 101, 102, 48, 49>>)
                      \o <<46, 116, 0, 110, 0>>
    /\ msf[1].data = GuidText(Repeat(48, 8)) \o <<0, 116, 0, 110, 0>>

\* C18: GUID normalisation covers the whole string.  After
\* normalizeFileNameGuid the name holds no text matching the GUID pattern
\* other than the null GUID, wherever the GUID was and however many there
\* were; and applying it again changes nothing.
C18_WholeString ==
    /\ [](pc \in {"guid again", "done"} =>
            \A m \in GuidMatches(msf[1].data, 0, start.length) :
                Peek(msf[1].data, m, Len(guidRegex)) = GuidText(Repeat(48, 8)))
    /\ [][pc = "guid again" => msf' = msf]_vars

\* What the code keeps of C18: the first GUID of the name is replaced by
\* the null GUID wherever it is, and a name with one GUID holds none
\* afterwards.
C18_FirstGuidOnly ==
    pc \in {"guid again", "done"} =>
        /\ GuidsAtStart # {} =>
              Peek(msf[1].data, FirstGuid, Len(guidRegex)) = GuidText(Repeat(48, 8))
        /\ Cardinality(GuidsAtStart) <= 1 =>
              \A m \in GuidMatches(msf[1].data, 0, start.length) :
                  Peek(msf[1].data, m, Len(guidRegex)) = GuidText(Repeat(48, 8))

\* A name with two GUIDs came out with the second one as it was.
C18_SecondGuidLeft ==
    /\ pc = "guid again"
    /\ Cardinality(GuidsAtStart) = 2
    /\ \E m \in GuidMatches(msf[1].data, 0, start.length) :
          /\ m # FirstGuid
          /\ Peek(msf[1].data, m, Len(guidRegex)) # GuidText(Repeat(48, 8))
          /\ Peek(msf[1].data, m, Len(guidRegex)) = Peek(start.data, m, Len(guidRegex))

-----------------------------------------------------------------------------
(* The pages MsfFile::write writes for a stream *)

\* The writer as MsfFile::write has it before it writes the stream at
\* index i - 1: the four blank pages and the pages of the streams in front.
WriterAt(src, streams, i) ==
    WriteStreams(src, SubSeq(streams, 1, i - 1), 1,
                 [f            |-> Repeat(0, 4 * kPageSize),
                  pageCount    |-> 4,
                  pagesWritten |-> <<>>])

\* The numbers of the pages writeStream appends to pagesWritten for the
\* stream at index i - 1.
StreamPagesWritten(src, streams, i) ==
    Let(WriterAt(src, streams, i), LAMBDA wb :
        Let(writeStream(src, streams[i], wb), LAMBDA wa :
            SubSeq(wa.pagesWritten, Len(wb.pagesWritten) + 1,
                   Len(wa.pagesWritten))))

\* In the written file f the stream at index i - 1 has the pages of its
\* length and no more, and the cells of these pages at the positions from
\* its length on are zero.
ZeroPaddedPages(src, streams, i, f) ==
    Let(StreamPagesWritten(src, streams, i), LAMBDA pages :
        /\ Len(pages) = pageCount(kPageSize, StreamLength(streams[i]))
        /\ \A k \in StreamLength(streams[i])..(Len(pages) * kPageSize - 1) :
              f[pages[k \div kPageSize + 1] * kPageSize + (k % kPageSize) + 1] = 0)

\* C19: the last page is zero-padded.  For every non-empty stream that
\* MsfFile::write writes, memory-backed or file-backed from the PDB read,
\* the bytes of its final page at the positions at or behind the stream's
\* length are zero; no read of writeStream returns bytes at positions >=
\* length(), so no byte of the file read behind a stream's length reaches
\* the file written.
C19_LastPageZeroPadded ==
    pc = "msf parse" =>
        \A i \in 1..Len(msf) :
            StreamLength(msf[i]) > 0 => ZeroPaddedPages(pdbFile, msf, i, tmpFile)

\* What the code keeps of C19: the streams held in memory, and the
\* file-backed streams that end where a page of the file read ends.
C19_LastPageZeroPadded_memory ==
    pc = "msf parse" =>
        \A i \in 1..Len(msf) :
            (/\ StreamLength(msf[i]) > 0
             /\ \/ msf[i].kind \in {"mem", "ro"}
                \/ /\ msf[i].kind = "file"
                   /\ msf[i].length % msf[i].pageSize = 0)
                => ZeroPaddedPages(pdbFile, msf, i, tmpFile)

\* A file-backed stream of 5 bytes, in a PDB with pages of the writer's
\* size, was written with the byte 0xCC that follows it in the PDB read.
C19_SourcePaddingWritten ==
    /\ pc = "msf parse"
    /\ msf[1].kind = "file" /\ msf[1].length = 5 /\ msf[1].pageSize = kPageSize
    /\ StreamPagesWritten(pdbFile, msf, 1) = <<4>>
    /\ pdbFile[msf[1].pages[1] * kPageSize + 5 + 1] = 204
    /\ tmpFile[4 * kPageSize + 5 + 1] = 204

\* A memory-backed stream one byte longer than a page was written with a
\* second page that is zero from its second byte on.
C19_MemoryPadded ==
    /\ pc = "msf parse"
    /\ \E i \in 1..Len(msf) :
          /\ msf[i].kind = "mem" /\ StreamLength(msf[i]) = kPageSize + 1
          /\ Len(StreamPagesWritten(pdbFile, msf, i)) = 2
          /\ ZeroPaddedPages(pdbFile, msf, i, tmpFile)

-----------------------------------------------------------------------------
(* MsfMemoryStream and MsfReadOnlyStream read side by side *)

\* The longest stream read and the largest length asked for.
MaxData == 4

\* The streams read: msf[1] is an MsfMemoryStream, msf[2] an
\* MsfReadOnlyStream over the same bytes.  out holds the reader's side: the
\* position of each stream, what the last read(length, buf) was asked for
\* and returned, and all that was read since the position was set.
InitRead ==
    /\ \E n \in 0..MaxData :
          msf = <<MsfMemoryStream(Data(n, 1)), MsfReadOnlyStream(Data(n, 1))>>
    /\ out = [memPos |-> 0, roPos |-> 0, from |-> 0, reads |-> 0]
    /\ pc = "stream"
    /\ image = <<>> /\ havePdb = TRUE /\ pdbFile = NoFile /\ tmpFile = NoFile
    /\ ilkFile = NoFile /\ dryrun = FALSE /\ wild = 0 /\ run = 1
    /\ pe = <<>> /\ patches = <<>> /\ pdbInfo = NULL
    /\ result = "" /\ steps = <<>> /\ start = <<>>

\* stream->setPos(pos) on both streams
StreamSetPos ==
    /\ pc = "stream"
    /\ \E pos \in 0..(MaxData + 1) :
          out' = [memPos |-> Min(Len(msf[1].data), pos),
                  roPos  |-> Min(Len(msf[2].data), pos),
                  from   |-> Min(Len(msf[1].data), pos),
                  reads  |-> 0]
    /\ UNCHANGED <<image, pdbFile, tmpFile, ilkFile, havePdb, dryrun, wild, pc,
                   pe, patches, pdbInfo, msf, result, steps, run, start>>

\* stream->read(length, buf) on both streams
StreamReadBoth ==
    /\ pc = "stream"
    /\ out.reads < MaxData
    /\ \E length \in 0..(MaxData + 1) :
          Let(MsfMemoryStream_read(msf[1].data, out.memPos, length), LAMBDA m :
          Let(MsfReadOnlyStream_read(msf[2].data, out.roPos, length), LAMBDA r :
              out' = [memPos  |-> out.memPos + Len(m),
                      roPos   |-> out.roPos + Len(r),
                      from    |-> out.from,
                      reads   |-> out.reads + 1,
                      length  |-> length,
                      at      |-> out.memPos,
                      memBuf  |-> m,
                      roBuf   |-> r,
                      memRead |-> (IF out.reads = 0 THEN <<>> ELSE out.memRead) \o m,
                      roRead  |-> (IF out.reads = 0 THEN <<>> ELSE out.roRead) \o r]))
    /\ UNCHANGED <<image, pdbFile, tmpFile, ilkFile, havePdb, dryrun, wild, pc,
                   pe, patches, pdbInfo, msf, result, steps, run, start>>

NextRead == StreamSetPos \/ StreamReadBoth

SpecRead == InitRead /\ [][NextRead]_vars

\* The number of bytes a read of length bytes at position p of a stream of
\* n bytes has to return.
Available(n, p, length) == IF p >= n THEN 0 ELSE Min(length, n - p)

\* C20: MsfMemoryStream::read is positional.  read(n, buf) at position p
\* returns k = min(n, length - p) (0 when p >= length), copies exactly the
\* bytes data[p, p+k) into buf and sets the position to p + k; consecutive
\* reads from position 0 yield the stream's bytes in order, the same as
\* MsfReadOnlyStream::read yields over the same bytes.
C20_ReadPositional ==
    (pc = "stream" /\ out.reads > 0) =>
        LET data == msf[1].data
            k    == Available(Len(data), out.at, out.length)
        IN  /\ Len(out.memBuf) = k
            /\ out.memBuf = [j \in 1..k |-> data[out.at + j]]
            /\ out.memPos = out.at + k
            /\ out.memRead = [j \in 1..(out.memPos - out.from) |-> data[out.from + j]]
            /\ out.memRead = out.roRead

\* What the code keeps of C20: the number of bytes returned and the new
\* position are as stated and the same as those of MsfReadOnlyStream::read,
\* and a read at position 0 copies the bytes data[0, k).
C20_ReadCountAndPosition ==
    (pc = "stream" /\ out.reads > 0) =>
        LET data == msf[1].data
            k    == Available(Len(data), out.at, out.length)
        IN  /\ Len(out.memBuf) = k
            /\ out.memPos = out.at + k
            /\ out.memPos = out.roPos
            /\ Len(out.memBuf) = Len(out.roBuf)
            /\ out.at = 0 => out.memBuf = [j \in 1..k |-> data[j]]
            /\ out.roBuf = [j \in 1..k |-> data[out.at + j]]

\* Two reads from position 0 of a stream of three bytes, of one byte and of
\* two: the memory stream returned the first byte twice.
C20_FirstBytesAgain ==
    /\ pc = "stream" /\ out.reads = 2 /\ out.from = 0
    /\ msf[1].data = Data(3, 1)
    /\ out.at = 1 /\ out.length = 2
    /\ out.memRead = <<1001, 1001, 1002>>
    /\ out.roRead = <<1001, 1002, 1003>>

-----------------------------------------------------------------------------
(* MsfFile::write on files that reach the second pair of free page map     *)
(* pages                                                                   *)

\* The number of pages of the streams that fill the file up to the free
\* page map pages kPageSize + 1 and kPageSize + 2.
FpmRun == kPageSize \div 8

\* The lengths of the first stream and of the last two streams written:
\* empty, shorter than a page, and some pages with and without a rest.
FpmLengths ==
    {0, 3, (FpmRun - 3) * kPageSize + 1, FpmRun * kPageSize}

\* The numbers of pages of the files whose free page map is longer than a
\* page, as long as a page, and shorter by a byte.
FpmPageCounts == {8 * kPageSize - 11, 8 * kPageSize, 8 * kPageSize + 5}

\* An MsfFile that holds nine memory streams: six of FpmRun pages between
\* a first one and two last ones of the lengths above.  Or MsfFile::write
\* where it has written the pages and the header of a long file and is
\* about to construct the free page map: tmpFile is the file, start holds
\* pageCount and the pages of stream 0.
InitFpm ==
    /\ \/ /\ msf \in {<<MsfMemoryStream(Data(a, 1))>>
                  \o [i \in 1..6 |-> MsfMemoryStream(Data(FpmRun * kPageSize, i + 1))]
                  \o <<MsfMemoryStream(Data(b, 8)), MsfMemoryStream(Data(c, 9))>> :
                  a \in {0, 3, FpmRun * kPageSize}, b \in FpmLengths, c \in FpmLengths}
          /\ pc = "msf write"
          /\ tmpFile = NoFile
          /\ start = <<>>
       \/ /\ msf = <<>>
          /\ pc = "fpm"
          /\ \E n \in FpmPageCounts :
               /\ tmpFile = Repeat(0, n * kPageSize)
               /\ start \in {[pageCount |-> n, streamZero |-> z] :
                                z \in {<<>>, <<4>>, <<4, 5, kPageSize + 3>>,
                                       <<8 * kPageSize - 12>>}}
    /\ pdbFile = NoFile
    /\ image = <<>> /\ ilkFile = NoFile /\ havePdb = TRUE
    /\ dryrun = FALSE /\ wild = 0 /\ pe = <<>> /\ patches = <<>>
    /\ pdbInfo = NULL /\ out = <<>>
    /\ result = "" /\ steps = <<>> /\ run = 1

\* FreePageMap fpm(pageCount); fpm.setFree(3); fpm.setFree() of the pages
\* of stream 0; fpm.write(f)
FpmWrite ==
    /\ pc = "fpm"
    /\ tmpFile' = FreePageMap_write(tmpFile,
                      FreePageMap(start.pageCount,
                          {3} \cup {start.streamZero[i] :
                                       i \in 1..Len(start.streamZero)}),
                      1)
    /\ pc' = "fpm written"
    /\ UNCHANGED <<image, pdbFile, ilkFile, havePdb, dryrun, wild, pe, patches,
                   pdbInfo, msf, out, result, steps, run, start>>

NextFpm == MsfWrite \/ MsfParse \/ FpmWrite

SpecFpm == InitFpm /\ [][NextFpm]_vars

\* The first n cells of the pages listed in pages of the file f.
PagesData(f, pages, n) ==
    [k \in 1..n |->
        f[pages[(k - 1) \div kPageSize + 1] * kPageSize + ((k - 1) % kPageSize) + 1]]

\* The root directory of f: the page list behind the header.
RootPages(f) ==
    SubSeq(f, sizeof(MSF_HEADER) + 1,
           sizeof(MSF_HEADER)
             + pageCount(kPageSize,
                 pageCount(kPageSize,
                     f[offsetof(MSF_HEADER, "streamTableInfo.size") + 1])))

\* The page list of the stream table of f.
StreamTablePages(f) ==
    PagesData(f, RootPages(f),
              pageCount(kPageSize, f[offsetof(MSF_HEADER, "streamTableInfo.size") + 1]))

\* The stream table of f.
StreamTable(f) ==
    PagesData(f, StreamTablePages(f),
              f[offsetof(MSF_HEADER, "streamTableInfo.size") + 1])

\* Every page index recorded in f: the root directory, the page list of
\* the stream table, and the page lists of the streams in the stream table.
RecordedPages(f) ==
    Let(StreamTable(f), LAMBDA st :
        RootPages(f) \o StreamTablePages(f) \o SubSeq(st, 2 + st[1], Len(st)))

\* C21: data pages never occupy FPM slots.  In a file MsfFile::write has
\* written no page index recorded in a page list (the streams' lists in the
\* stream table, the page list of the stream table, the root directory)
\* is congruent to 1 or 2 modulo the page size, and all recorded indices are
\* pairwise distinct, at least 4 and less than header.pageCount.
C21_NoDataInFpmSlots ==
    pc = "msf parse" =>
        Let(RecordedPages(tmpFile), LAMBDA rec :
            /\ \A i \in 1..Len(rec) :
                  /\ rec[i] % kPageSize \notin {1, 2}
                  /\ rec[i] >= 4
                  /\ rec[i] < tmpFile[offsetof(MSF_HEADER, "pageCount") + 1]
            /\ Cardinality({rec[i] : i \in 1..Len(rec)}) = Len(rec))

\* A file was written whose page kPageSize is recorded and followed, in the
\* same page list, by page kPageSize + 3: the two pages of the free page map
\* were skipped.
C21_Witness ==
    /\ pc = "msf parse"
    /\ Let(RecordedPages(tmpFile), LAMBDA rec :
           \E i \in 1..(Len(rec) - 1) :
               rec[i] = kPageSize /\ rec[i + 1] = kPageSize + 3)

\* Bit k of the free page map in the file f: the maps are at the page 1 and
\* every kPageSize pages behind it, each holding 8 * kPageSize bits.
FpmBit(f, k) ==
    (f[(1 + (k \div (8 * kPageSize)) * kPageSize) * kPageSize
         + ((k \div 8) % kPageSize) + 1]
       \div (2 ^ (k % 8))) % 2

\* The free page map of the file f of n pages is as C22 says, streamZero
\* being the pages written for stream 0.
FpmAsSpecified(f, n, streamZero) ==
    /\ \A k \in 0..(8 * kPageSize * pageCount(kPageSize, (n + 7) \div 8) - 1) :
          FpmBit(f, k) = 1 <=>
              \/ k >= n
              \/ k = 3
              \/ \E i \in 1..Len(streamZero) : streamZero[i] = k
    /\ \A c \in 0..(pageCount(kPageSize, (n + 7) \div 8) - 1) :
          \A j \in 1..kPageSize : f[(2 + c * kPageSize) * kPageSize + j] = 0

\* The pages of stream 0 in the stream table of f.
StreamZeroPages(f) ==
    Let(StreamTable(f), LAMBDA st :
        SubSeq(st, 2 + st[1], 1 + st[1] + pageCount(kPageSize, st[2])))

\* C22: free page map contents.  In the FPM MsfFile::write writes, for
\* every page k < pageCount bit k is 1 exactly when k is 3 or a page written
\* for stream 0, and 0 otherwise; every bit at a position >= pageCount of
\* the FPM page written is 1; the bitmap starts at page 1 and continues
\* every kPageSize pages, and the second page of each pair is left zero.
C22_FreePageMap ==
    /\ pc = "msf parse" =>
          FpmAsSpecified(tmpFile, tmpFile[offsetof(MSF_HEADER, "pageCount") + 1],
                         StreamZeroPages(tmpFile))
    /\ pc = "fpm written" =>
          FpmAsSpecified(tmpFile, start.pageCount, start.streamZero)

\* A file was written whose stream 0 has the pages 4 to 3 + FpmRun: their
\* bits and that of the page 3 are set, those of the pages 0, 1, 2 and of
\* the first page of stream 1 are not, and those behind pageCount are.
C22_Witness ==
    /\ pc = "msf parse"
    /\ StreamZeroPages(tmpFile) = [i \in 1..FpmRun |-> 3 + i]
    /\ \A k \in 3..(3 + FpmRun) : FpmBit(tmpFile, k) = 1
    /\ \A k \in {0, 1, 2, 4 + FpmRun} : FpmBit(tmpFile, k) = 0
    /\ FpmBit(tmpFile, tmpFile[offsetof(MSF_HEADER, "pageCount") + 1]) = 1

\* The free page map of a file of 8 * kPageSize + 5 pages was written: its
\* second part is in the page kPageSize + 1.
C22_SecondMapPage ==
    /\ pc = "fpm written"
    /\ start.pageCount = 8 * kPageSize + 5
    /\ start.streamZero = <<4, 5, kPageSize + 3>>
    /\ tmpFile[kPageSize + 1] = 8 + 16 + 32
    /\ tmpFile[(kPageSize + 1) * kPageSize + 1] = 255 - 31
    /\ tmpFile[(kPageSize + 1) * kPageSize + 2] = 255

-----------------------------------------------------------------------------
(* MsfFile::MsfFile alone, on files that no linker wrote *)

\* A file of six pages of kPageSize cells with the header, the stream table
\* st in page 4 and its page list in page 5; page 3 is for the streams.
MkMsfTable(st) ==
    PadPage(<<kMsfHeaderMagic, kPageSize, 1, 6, Len(st), 0>>
              \o (IF st = <<>> THEN <<>> ELSE <<5>>), kPageSize, 0)
      \o Repeat(0, 2 * kPageSize)
      \o Data(kPageSize, 1)
      \o PadPage(st, kPageSize, 0) \o (IF st = <<>> THEN kBlankPage ELSE <<>>)
      \o PadPage(<<4>>, kPageSize, 0)

\* Stream tables as a linker writes them; a stream of size -1 is one that
\* was deleted.
GoodTables ==
    {<<0>>, <<1, 5, 3>>, <<2, 5, 0, 3>>, <<1, -1>>, <<3, 1, 1, 1, 3, 3, 3>>,
     <<2, 5, kPageSize + 1, 3, 3, 3>>}

\* These, and what is left of them when the end is cut off, down to the
\* empty table; and tables that count more streams than they have.
StreamTables ==
    UNION {{SubSeq(t, 1, k) : k \in 0..Len(t)} : t \in GoodTables}
      \cup {<<5, 0, 0>>, <<9, 1, 3>>, <<4, -1, -1, -1>>}

\* The file of the table <<2, 5, 0, 3>> with another header: another
\* magic, pageSize 0, a pageCount that is one too large, a pageCount whose
\* product with pageSize is the size of the file plus 2^Uint32Bits, a
\* stream table size beyond the file; and files that end early.
HeaderFiles ==
    Let(MkMsfTable(<<2, 5, 0, 3>>), LAMBDA f :
        {Set(f, 0, MSF_HEADER, "magic", kMsfHeaderMagic + 1),
         Set(f, 0, MSF_HEADER, "pageSize", 0),
         Set(f, 0, MSF_HEADER, "pageCount", 7),
         Set(f, 0, MSF_HEADER, "pageCount", 6 + (2 ^ Uint32Bits) \div kPageSize),
         Set(f, 0, MSF_HEADER, "streamTableInfo.size", 7 * kPageSize),
         SubSeq(f, 1, 3),
         SubSeq(f, 1, sizeof(MSF_HEADER)),
         SubSeq(f, 1, 5 * kPageSize),
         Set(SubSeq(f, 1, 5 * kPageSize), 0, MSF_HEADER, "pageCount", 5)})

InitOpen ==
    /\ pdbFile \in {MkMsfTable(st) : st \in StreamTables} \cup HeaderFiles
    /\ pc = "msf open"
    /\ image = <<>> /\ ilkFile = NoFile /\ tmpFile = NoFile /\ havePdb = TRUE
    /\ dryrun = FALSE /\ wild \in Wild /\ pe = <<>> /\ patches = <<>>
    /\ pdbInfo = NULL /\ msf = <<>> /\ out = <<>>
    /\ result = "" /\ steps = <<>> /\ run = 1
    /\ start = <<>>

NextOpen == MsfOpen

SpecOpen == InitOpen /\ [][NextOpen]_vars

\* The field name of the header of the file f.
HeaderField(f, name) == f[offsetof(MSF_HEADER, name) + 1]

\* C23: MSF header validation uses the exact product.  The constructor
\* accepts a file only if the magic matches and the mathematical product
\* pageSize x pageCount equals the file size; a header whose 32-bit
\* product wraps to the file size, or whose pageSize is 0, is rejected with
\* InvalidMsf rather than accepted or crashing.
C23_ExactProduct ==
    /\ pc = "msf edit" =>
          /\ HeaderField(pdbFile, "magic") = kMsfHeaderMagic
          /\ HeaderField(pdbFile, "pageSize") * HeaderField(pdbFile, "pageCount")
                = Len(pdbFile)
    /\ (/\ pc # "msf open"
        /\ Len(pdbFile) >= sizeof(MSF_HEADER)
        /\ \/ HeaderField(pdbFile, "pageSize") = 0
           \/ HeaderField(pdbFile, "pageSize") * HeaderField(pdbFile, "pageCount")
                # Len(pdbFile))
          => result = "InvalidMsf"

\* What the code keeps of C23: an accepted file has the magic and the
\* product of pageSize and pageCount as an uint32_t is its size; a pageSize
\* of 0 and a magic that does not match are rejected with InvalidMsf.
C23_WrappedProduct ==
    /\ pc = "msf edit" =>
          /\ HeaderField(pdbFile, "magic") = kMsfHeaderMagic
          /\ uint32_t(HeaderField(pdbFile, "pageSize")
                        * HeaderField(pdbFile, "pageCount")) = Len(pdbFile)
    /\ (/\ pc # "msf open"
        /\ Len(pdbFile) >= sizeof(MSF_HEADER)
        /\ \/ HeaderField(pdbFile, "pageSize") = 0
           \/ HeaderField(pdbFile, "magic") # kMsfHeaderMagic)
          => result = "InvalidMsf"

\* The file of six pages whose header says 6 + 2^Uint32Bits / kPageSize
\* pages was accepted, with its two streams.
C23_WrapAccepted ==
    /\ pc = "msf edit"
    /\ HeaderField(pdbFile, "pageCount") = 6 + (2 ^ Uint32Bits) \div kPageSize
    /\ Len(pdbFile) = 6 * kPageSize
    /\ Len(msf) = 2

\* The constructor came to the stream table of the file f: the header was
\* accepted and the pages of the table are in the file.
TableRead(f) ==
    /\ Len(f) = 6 * kPageSize
    /\ HeaderField(f, "magic") = kMsfHeaderMagic
    /\ HeaderField(f, "pageSize") = kPageSize
    /\ HeaderField(f, "pageCount") % ((2 ^ Uint32Bits) \div kPageSize) = 6
    /\ HeaderField(f, "streamTableInfo.size") <= kPageSize

\* The indices of the words of the stream table of f that the constructor
\* reads: the stream count, then those of the loop.
TableWordsRead(f) ==
    Let(StreamTable(f), LAMBDA st :
        {0} \cup ReadStreams_reads(st, kPageSize,
                                   IF st = <<>> THEN wild ELSE st[1], 0, 0))

\* C24: stream-table enumeration stays in bounds.  Every word the
\* constructor reads from the stream table (the stream count, each size,
\* each page number) is at an index below the table's word count; a table
\* whose streamCount or sizes would need a read past its end, the empty
\* table included, is rejected with InvalidMsf.
C24_TableReadsInBounds ==
    (pc # "msf open" /\ TableRead(pdbFile)) =>
        /\ \A k \in TableWordsRead(pdbFile) :
              k < HeaderField(pdbFile, "streamTableInfo.size")
        /\ HeaderField(pdbFile, "streamTableInfo.size") = 0 => result = "InvalidMsf"

\* The words a table needs that holds what it says: the count, the sizes,
\* and the pages of each stream.
RECURSIVE PagesNeeded(_, _, _)
PagesNeeded(st, streamCount, i) ==
    IF i > streamCount THEN 0
    ELSE pageCount(kPageSize, IF st[1 + i] = -1 THEN 0 ELSE st[1 + i])
           + PagesNeeded(st, streamCount, i + 1)

Consistent(st) ==
    /\ Len(st) >= 1
    /\ st[1] >= 0
    /\ Len(st) >= 1 + st[1]
    /\ Len(st) >= 1 + st[1] + PagesNeeded(st, st[1], 1)

\* What the code keeps of C24: a table that holds what it says is read
\* within its bounds and accepted, and in every table the loop stops with
\* InvalidMsf where pagesIndex has reached the word count.
C24_ConsistentTableInBounds ==
    (pc # "msf open" /\ TableRead(pdbFile)) =>
        Let(StreamTable(pdbFile), LAMBDA st :
            Consistent(st) =>
                /\ pc = "msf edit"
                /\ Len(msf) = st[1]
                /\ \A k \in TableWordsRead(pdbFile) : k < Len(st))

\* The table <<3, 1>>, which counts three streams and is two words long,
\* was accepted: the sizes of the streams 1 and 2 and every page number
\* were read behind its end.
C24_ReadBehindTable ==
    /\ pc = "msf edit"
    /\ TableRead(pdbFile)
    /\ StreamTable(pdbFile) = <<3, 1>>
    /\ Len(msf) = 3
    /\ {2, 3, 4} \subseteq TableWordsRead(pdbFile)

\* The empty stream table was accepted: the stream count was read from
\* what follows an empty vector.
C24_EmptyTableAccepted ==
    /\ pc = "msf edit"
    /\ TableRead(pdbFile)
    /\ HeaderField(pdbFile, "streamTableInfo.size") = 0

-----------------------------------------------------------------------------
(* The sizes of the data directories *)

\* The field name of the PE32 optional header of the image img.
OptField(img, name) ==
    img[OptionalAt + offsetof(IMAGE_OPTIONAL_HEADER32, name) + 1]

\* The image with an export, a resource and two debug directories, with
\* the Size of each data directory set to e, r and d.
WithSizes(e, r, d) ==
    WithField(
      WithField(
        WithField(MkImage(ImageExpRes), OptionalAt, IMAGE_OPTIONAL_HEADER32,
                  "Export.Size", e),
        OptionalAt, IMAGE_OPTIONAL_HEADER32, "Resource.Size", r),
      OptionalAt, IMAGE_OPTIONAL_HEADER32, "Debug.Size", d)

\* Sizes below, at and above the size of one structure (and, for the debug
\* directory, of the two the image has).
DirImages ==
    {WithSizes(e, r, d) :
        e \in {sizeof(IMAGE_EXPORT_DIRECTORY) - 1, sizeof(IMAGE_EXPORT_DIRECTORY),
               sizeof(IMAGE_EXPORT_DIRECTORY) + 1},
        r \in {0, sizeof(IMAGE_RESOURCE_DIRECTORY), sizeof(IMAGE_RESOURCE_DIRECTORY) + 2},
        d \in {0, sizeof(IMAGE_DEBUG_DIRECTORY) - 1, sizeof(IMAGE_DEBUG_DIRECTORY),
               2 * sizeof(IMAGE_DEBUG_DIRECTORY), 2 * sizeof(IMAGE_DEBUG_DIRECTORY) + 1}}

InitDir ==
    /\ image \in DirImages
    /\ havePdb = FALSE
    /\ pdbFile = NoFile
    /\ ilkFile = NoFile
    /\ tmpFile = NoFile
    /\ dryrun \in BOOLEAN
    /\ wild = 0
    /\ run = 1
    /\ Fresh
    /\ start = Files

NextDir ==
    \/ ParsePE
    \/ SortPatches
    \/ CalculateChecksum
    \/ PatchIlk
    \/ ApplyPatches

SpecDir == InitDir /\ [][NextDir]_vars

\* The data directory entry of the image is present and its Size is
\* smaller than n.
TooSmall(entry, n) ==
    /\ OptField(image, entry \o ".VirtualAddress") # 0
    /\ OptField(image, entry \o ".Size") < n

\* C25: data-directory size sanity.  For each of the export, resource and
\* debug data directories whose VirtualAddress is non-zero, a Size smaller
\* than one structure of its type makes the run fail with InvalidImage; a
\* Size larger than the structure is accepted.
C25_DirectorySizes ==
    pc # "parse" =>
        IF \/ TooSmall("Export", sizeof(IMAGE_EXPORT_DIRECTORY))
           \/ TooSmall("Resource", sizeof(IMAGE_RESOURCE_DIRECTORY))
           \/ TooSmall("Debug", sizeof(IMAGE_DEBUG_DIRECTORY))
          THEN result = "InvalidImage"
        ELSE result # "InvalidImage"

\* What the code keeps of C25: the export and the resource directory are
\* checked, and larger sizes are accepted for all three.
C25_ExportAndResourceSizes ==
    pc # "parse" =>
        IF \/ TooSmall("Export", sizeof(IMAGE_EXPORT_DIRECTORY))
           \/ TooSmall("Resource", sizeof(IMAGE_RESOURCE_DIRECTORY))
          THEN result = "InvalidImage"
        ELSE result # "InvalidImage"

\* A debug directory of a Size one byte short of an IMAGE_DEBUG_DIRECTORY
\* was accepted: the image was patched as one without debug entries.
C25_SmallDebugAccepted ==
    /\ pc = "done" /\ result = "ok"
    /\ OptField(image, "Debug.VirtualAddress") # 0
    /\ OptField(image, "Debug.Size") = sizeof(IMAGE_DEBUG_DIRECTORY) - 1
    /\ \A i \in 1..Len(patches) :
          patches[i].name \notin {"IMAGE_DEBUG_DIRECTORY.TimeDateStamp",
                                  "PDB Signature", "PDB Age"}

\* Directories larger than their structures were accepted.
C25_LargerAccepted ==
    /\ pc = "done" /\ result = "ok"
    /\ OptField(image, "Export.Size") = sizeof(IMAGE_EXPORT_DIRECTORY) + 1
    /\ OptField(image, "Resource.Size") = sizeof(IMAGE_RESOURCE_DIRECTORY) + 2
    /\ OptField(image, "Debug.Size") = 2 * sizeof(IMAGE_DEBUG_DIRECTORY) + 1

-----------------------------------------------------------------------------
(* The run with and without an .ilk file *)

\* The .ilk files next to the image: none, one that cannot be opened, one
\* that holds the signature of the image, and one that does not.
IlkSidecars ==
    {NoFile, Denied, <<1>> \o Sig(1) \o <<2, 3>>, <<1, 2, 3>>}

InitSidecar ==
    /\ image \in {MkImage(ImageA), MkImage(ImageB), MkImage(ImageNoDebug)}
    /\ havePdb = FALSE
    /\ pdbFile = NoFile
    /\ ilkFile \in IlkSidecars
    /\ tmpFile = NoFile
    /\ dryrun \in BOOLEAN
    /\ wild = 0
    /\ run = 1
    /\ Fresh
    /\ start = Files

NextSidecar ==
    \/ ParsePE
    \/ SortPatches
    \/ CalculateChecksum
    \/ PatchIlk
    \/ ApplyPatches

SpecSidecar == InitSidecar /\ [][NextSidecar]_vars

-----------------------------------------------------------------------------
(* patchDbiStream alone *)

\* The module info entries of a DBI stream: the module of the manifest
\* resource or another one, with or without an object name, and the index
\* of its debug stream: the stream patchPDB has replaced by null, the
\* module stream, an index behind the last stream, and 0xFFFF.
DbiModules ==
    {[name |-> n, obj |-> o, stream |-> st] :
        n \in {sManifestRes, <<109>>}, o \in {<<>>, <<111>>},
        st \in {0, 2, 3, invalidStream}}

\* The DBI stream of the modules mods, with tail behind them in the module
\* info, and neither section contributions nor file info.
DbiOf(mods, tail) ==
    LET info == Flatten([i \in 1..Len(mods) |->
                   PadPage(<<0, 1, 77, 0, 77, mods[i].stream, 77, 0>>
                             \o mods[i].name \o <<0>> \o mods[i].obj \o <<0>>,
                           4, 0)]) \o tail
    IN  <<dbiHeaderSignature, DbiVersion_v70, 3, invalidStream, 5, 4,
          Len(info), 0, 0, 0, 0, 0, 0>> \o info

\* The streams of the MsfFile when patchPDB calls patchDbiStream: the old
\* stream table replaced by null, the copy of the DBI stream, and a module
\* stream.
InitDbi ==
    /\ \E mods \in {<<a>> : a \in DbiModules}
                     \cup {<<a, b>> : a \in DbiModules, b \in DbiModules},
          tail \in {<<>>, <<0, 0, 0, 0>>} :
         /\ start = [mods |-> mods, tail |-> tail]
         /\ msf = <<NullStream, MsfMemoryStream(DbiOf(mods, tail)),
                    MsfMemoryStream(MkPdbStreams(PdbA)[9])>>
    /\ pc = "dbi"
    /\ image = <<>> /\ havePdb = TRUE /\ pdbFile = NoFile /\ tmpFile = NoFile
    /\ ilkFile = NoFile /\ dryrun = FALSE /\ wild = 0 /\ run = 1
    /\ pe = <<>> /\ patches = <<>> /\ pdbInfo = NULL /\ out = <<>>
    /\ result = "" /\ steps = <<>>

\* patchDbiStream(msf, dbiStream.get()); msf.replaceStream(dbi, dbiStream)
RunPatchDbiStream ==
    /\ pc = "dbi"
    /\ Let(patchDbiStream(pdbFile, msf, msf[2].data), LAMBDA r :
           IF r.status = "ok"
             THEN /\ msf' = replaceStream(r.streams, 1, MsfMemoryStream(r.data))
                  /\ result' = "ok"
           ELSE result' = r.status /\ UNCHANGED msf)
    /\ pc' = "done"
    /\ Step("dbi")
    /\ UNCHANGED <<image, pdbFile, tmpFile, ilkFile, havePdb, dryrun, wild, pe,
                   patches, pdbInfo, out, run, start>>

NextDbi == RunPatchDbiStream

SpecDbi == InitDbi /\ [][NextDbi]_vars

\* C27: patchDbiStream terminates on every DBI stream: each iteration of
\* the loop over the module info raises InvalidPdb or advances i, also for
\* the module "* Linker Generated Manifest RES *" without object name whose
\* stream index makes getStream return null.
C27_Terminates ==
    pc = "done" => result \in {"ok", "InvalidPdb"}

\* The modules of mods the loop does not get past: the manifest resource
\* module, without object name, of a stream index getStream returns null
\* for.
StuckAt(mods) ==
    {i \in 1..Len(mods) :
        /\ mods[i].name = sManifestRes /\ mods[i].obj = <<>>
        /\ mods[i].stream \in {0, 3, invalidStream}}

\* What the code keeps of C27: the loop never ends exactly on the streams
\* with such a module; on every other stream each entry is passed, and
\* patchDbiStream returns or raises InvalidPdb for what is left behind the
\* last entry.
C27_TerminatesButForNullStream ==
    pc = "done" =>
        IF StuckAt(start.mods) # {} THEN result = "hang"
        ELSE IF start.tail # <<>> THEN result = "InvalidPdb"
        ELSE /\ result = "ok"
             /\ Len(msf[2].data) = Len(DbiOf(start.mods, start.tail))

\* The loop that never ends, on a manifest resource module of stream 0xFFFF.
C27_LoopsForever ==
    /\ pc = "done" /\ result = "hang"
    /\ Len(start.mods) = 1 /\ start.mods[1].stream = invalidStream

\* The manifest resource module of a stream that is there was passed and
\* its stream patched.
C27_ManifestPatched ==
    /\ pc = "done" /\ result = "ok"
    /\ \E i \in 1..Len(start.mods) :
          start.mods[i].name = sManifestRes /\ start.mods[i].obj = <<>>
    /\ msf[3].data # MkPdbStreams(PdbA)[9]

-----------------------------------------------------------------------------
(* patchSymbolRecordsStream on records of any data *)

\* The bytes of the data of a record.
DataBytes == {0, 65, 171}

\* A symbol record (bytes) of the given data.
RawRec(data) ==
    <<(fieldlen(SymbolRecord, "type") + Len(data)) % 256,
      (fieldlen(SymbolRecord, "type") + Len(data)) \div 256, 14, 17>> \o data

\* The data of the records that pass the validation: no data, four bytes,
\* and eight bytes of which the first five are a name.
RecordData ==
    {<<>>} \cup [1..4 -> DataBytes]
           \cup {<<102, 111, 111, 98, 97>> \o t : t \in [1..3 -> {0, 65}]}

\* A stream of one record, or of that record behind a record without data
\* or behind the record "abc".
InitTail ==
    /\ \E data \in RecordData, first \in {<<>>, <<<<>>>>, <<<<97, 98, 99, 0>>>>} :
         /\ start = [data |-> first \o <<data>>]
         /\ msf = <<MsfMemoryStream(
                      Flatten([i \in 1..Len(first \o <<data>>) |->
                                  RawRec((first \o <<data>>)[i])]))>>
    /\ pc = "symbol records"
    /\ image = <<>> /\ havePdb = TRUE /\ pdbFile = NoFile /\ tmpFile = NoFile
    /\ ilkFile = NoFile /\ dryrun = FALSE /\ wild \in Wild /\ run = 1
    /\ pe = <<>> /\ patches = <<>> /\ pdbInfo = NULL /\ out = <<>>
    /\ result = "" /\ steps = <<>>

\* patchSymbolRecordsStream(symRecStream.get()), with what it read and
\* wrote of each record.
RunTailScan ==
    /\ pc = "symbol records"
    /\ Let(patchSymbolRecordsStream(msf[1].data), LAMBDA r :
           IF r.status = "ok"
             THEN /\ msf' = <<MsfMemoryStream(r.data)>>
                  /\ out' = r.log
                  /\ result' = "ok"
           ELSE result' = r.status /\ UNCHANGED <<msf, out>>)
    /\ pc' = "done"
    /\ Step("symbol records")
    /\ UNCHANGED <<image, pdbFile, tmpFile, ilkFile, havePdb, dryrun, wild, pe,
                   patches, pdbInfo, run, start>>

NextTail == RunTailScan

SpecTail == InitTail /\ [][NextTail]_vars

\* The data of the k-th record of the stream d, the records having the
\* lengths of the data in recs.
RECURSIVE DataOffset(_, _)
DataOffset(recs, k) ==
    IF k = 1 THEN sizeof(SymbolRecord)
    ELSE DataOffset(recs, k - 1) + Len(recs[k - 1]) + sizeof(SymbolRecord)

DataOf(d, recs, k) ==
    SubSeq(d, DataOffset(recs, k) + 1, DataOffset(recs, k) + Len(recs[k]))

\* The indices of data behind a NUL that is among the last three bytes.
BehindNul(data) ==
    {k \in 0..(Len(data) - 1) :
        \E n \in 0..(k - 1) : n >= Len(data) - 3 /\ data[n + 1] = 0}

\* C28: symbol-record bytes that are not padding are preserved.
\* patchSymbolRecordsStream modifies only bytes that come after a NUL
\* within the last three data bytes of a record; a record whose last three
\* data bytes are all non-zero is left byte-identical.
C28_NonPaddingPreserved ==
    pc = "done" =>
        /\ result = "ok"
        /\ Len(msf[1].data) = Len(Flatten([i \in 1..Len(start.data) |-> RawRec(start.data[i])]))
        /\ \A k \in 1..Len(start.data) :
              \A j \in 0..(Len(start.data[k]) - 1) :
                 DataOf(msf[1].data, start.data, k)[j + 1] # start.data[k][j + 1]
                    => j \in BehindNul(start.data[k])

\* What the code keeps of C28: the bytes changed are behind a NUL among the
\* last three, or the last byte of the data; the four bytes in front of
\* the data and all but the last three bytes of the data are as they were.
C28_LastByteOrBehindNul ==
    pc = "done" =>
        /\ result = "ok"
        /\ Len(msf[1].data) = Len(Flatten([i \in 1..Len(start.data) |-> RawRec(start.data[i])]))
        /\ \A k \in 1..Len(start.data) :
              /\ SubSeq(msf[1].data, DataOffset(start.data, k) - sizeof(SymbolRecord) + 1,
                        DataOffset(start.data, k))
                   = SubSeq(RawRec(start.data[k]), 1, sizeof(SymbolRecord))
              /\ \A j \in 0..(Len(start.data[k]) - 1) :
                    DataOf(msf[1].data, start.data, k)[j + 1] # start.data[k][j + 1]
                       => /\ j >= Len(start.data[k]) - 3
                          /\ j \in BehindNul(start.data[k]) \/ j = Len(start.data[k]) - 1

\* A record whose last three data bytes are not zero, and whose last byte
\* is zero afterwards.
C28_LastByteZeroed ==
    /\ pc = "done" /\ result = "ok"
    /\ start.data = <<<<65, 65, 65, 65>>>>
    /\ DataOf(msf[1].data, start.data, 1) = <<65, 65, 65, 0>>

\* C29: the tail scan never leaves the record.  For every record that
\* passes the validation, also one without data, the scan reads and writes
\* only the indices 0 .. dataLength - 1 of its data, the wrap-around of
\* dataLength - 3 causes no access outside the record, and the cursor i
\* strictly increases from record to record.
C29_ScanStaysInRecord ==
    pc = "done" =>
        /\ result = "ok"
        /\ Len(out) = Len(start.data)
        /\ \A k \in 1..Len(out) :
              /\ out[k].dataLength = Len(start.data[k])
              /\ out[k].i + sizeof(SymbolRecord) = DataOffset(start.data, k)
              /\ out[k].reads \subseteq 0..(out[k].dataLength - 1)
              /\ out[k].writes \subseteq 0..(out[k].dataLength - 1)
              /\ k > 1 => out[k].i > out[k - 1].i

\* A record without data was passed with nothing read or written, and the
\* record behind it was scanned.
C29_EmptyRecordPassed ==
    /\ pc = "done" /\ result = "ok"
    /\ start.data = <<<<>>, <<65, 65, 0, 65>>>>
    /\ out[1].dataLength = 0 /\ out[1].reads = {} /\ out[1].writes = {}
    /\ out[2].reads = {1, 2} /\ out[2].writes = {2, 3}

\* The names of the patches of the debug directories.
DebugPatchNames ==
    {"IMAGE_DEBUG_DIRECTORY.TimeDateStamp", "PDB Signature", "PDB Age"}

\* The image has no debug directory and the headers have been parsed.
NoDebugParsed ==
    /\ start.image = MkImage(ImageNoDebug)
    /\ "parse" \in {steps[i] : i \in 1..Len(steps)}

\* C30: an image without a debug directory produces no debug patches.
\* getDebugDataDirs returns NULL, patchDebugDataDirectories loops over zero
\* entries, dereferences no entry and adds none of the patches of the debug
\* directories; the run continues to sort, digest and apply.
C30_NoDebugNoPatches ==
    NoDebugParsed =>
        /\ result # "fault"
        /\ \A i \in 1..Len(patches) : patches[i].name \notin DebugPatchNames
        /\ pdbInfo = NULL
        /\ pc = "done" =>
              /\ result = "ok"
              /\ steps = <<"parse", "sort", "digest", "ilk", "apply">>
              /\ ilkFile = start.ilkFile

\* What the code keeps of C30: no patch of the debug directories is added,
\* and the run either continues to sort, digest and apply or ends in
\* patchDebugDataDirectories, by the entry read through the null pointer.
C30_NoPatchesOrFault ==
    NoDebugParsed =>
        /\ \A i \in 1..Len(patches) : patches[i].name \notin DebugPatchNames
        /\ pdbInfo = NULL
        /\ pc = "done" =>
              \/ /\ result = "ok"
                 /\ steps = <<"parse", "sort", "digest", "ilk", "apply">>
                 /\ ilkFile = start.ilkFile
              \/ result = "fault" /\ steps = <<"parse">> /\ image = start.image

\* The count was not 0 and the null pointer was dereferenced.
C30_NullDereferenced ==
    NoDebugParsed /\ pc = "done" /\ result = "fault"

\* The count happened to be 0 and the image was patched.
C30_CountHappenedToBeZero ==
    NoDebugParsed /\ pc = "done" /\ result = "ok" /\ ~dryrun /\ image # start.image

====
